---- MODULE Spec2Model ----
(***************************************************************************)
(* A model of the capture / buffer / supervision engine of camera.py       *)
(* (class RobustCameraView): the lifecycle requests start_continuous_feed, *)
(* stop_continuous_feed, restart_feed and toggle_continuous_feed, the      *)
(* watchdog thread, the Capture Loop thread (_safe_video_loop), the        *)
(* single-slot frame buffer and the display consumer.                      *)
(*                                                                         *)
(* Threads of the program are processes of the model: the callers "user"   *)
(* and "wd" (the watchdog thread), the Capture Loop threads 1..MaxThreads  *)
(* and the display consumer.  One action is one statement (or one locked   *)
(* section) of the source.  Time is abstracted: a timed sleep is a step, a *)
(* bounded join returns when the thread is dead or when its timeout has    *)
(* expired, and a timestamp comparison is a nondeterministic choice.       *)
(***************************************************************************)
EXTENDS Integers, Sequences, FiniteSets, TLC

(* ------------------------------ bounds --------------------------------- *)
\* Capture Loop threads a run can start.
MaxThreads == 2
\* Frames the device delivers with distinct identities (then it repeats the last).
MaxFrames == 4
\* Consecutive exceptions a Capture Loop thread survives in the loop_error
\* handler (534-542), which only counts them: the thread then sleeps for good.
MaxErrors == 1
\* Requests the user interface issues, and polls the watchdog makes, in a run.
MaxUserRequests == 1
MaxWatchdogPolls == 1
\* Iterations of the capture loop a thread makes in the lifecycle scenarios.
MaxTicks == 1
\* start_continuous_feed calls of the user interface in the start scenario.
MaxStartCalls == 2
\* Requests of the user interface in the fair scenario.
MaxFairRequests == 2
\* Length of the history window of gated reads.
MaxWindow == 4
\* Adjustments at full load counted in a row.
MaxHotRun == 12
\* Capture and save requests of the user interface.
MaxUiCalls == 4
\* Presses of the feed button.
MaxToggles == 2
\* Largest pan offset, in pixels, the pan gestures build up.
MaxPan == 500
\* Skipped ticks counted by frame_skip_counter.
MaxSkips == 2
\* polls of the watchdog where a second poll matters
MaxStalePolls == 2

(* ------------------------- program constants --------------------------- *)
max_consecutive_failures == 15
reconnect_delay == 10
backoff_step == 2
backoff_cap == 10
max_init_attempts == 3
quality_test_attempts == 10
\* stable_frames >= 3 in the HD gating branch
RequiredStable == 3
frame_skip_threshold == 80
\* 68-70: target_fps = 25, max_fps = 30, min_fps = 15
initial_target_fps == 25
max_fps == 30
min_fps == 15
\* 129-131: min_zoom = 1.0, max_zoom = 5.0, zoom_step = 0.2, in units of 0.2
min_zoom == 5
max_zoom == 25
zoom_step == 1

Max(a, b) == IF a >= b THEN a ELSE b
Min(a, b) == IF a <= b THEN a ELSE b

Threads == 1..MaxThreads
Callers == {"user", "wd"}
None == 0
NoFrame == <<"none", 0>>
\* File names of captured_images/ are written as their numeric suffix: <<>> is
\* camera_<name>_<timestamp>.jpg itself, <<0, 0, 1>> is ..._001.jpg.
NoName == <<-1>>
NoCrop == <<-1, -1, -1, -1>>
\* frame.shape[:2] of the frames the source delivers, as <<w, h>>
FrameSizes == {<<640, 480>>}
\* Where the mouse is pressed and dragged to, in canvas pixels.
MousePoints == {<<0, 20>>, <<50, 0>>}
Base == <<>>
NoFiles == [n \in {} |-> "full"]
\* holders of frame_buffer['buffer_lock']
Free == "free"
Capture == "capture"
Display == "display"

VARIABLES
  \* lifecycle fields of the session
  is_running, should_be_running, restart_in_progress, stop_event, video_thread,
  initialization_attempts, last_successful_frame, connection_stable,
  \* device: the session's handle field and the handles currently open
  cap, open_handles,
  \* frame buffer
  frame_buffer, buffer_lock, frame_ready_event,
  \* display consumer
  current_frame, display_frame, dpc, d_raw, d_proc,
  \* callers (user interface thread, watchdog thread): position in the code,
  \* and the requests each may still issue
  pc, budget,
  \* Capture Loop threads: position and locals of _safe_video_loop
  tpc, consecutive_failures, stable_frames, t_frame, t_probe, backoff, ticks,
  \* environment: source kind, what the device and the host may do
  camera_type, url_configured, hd_quality_enabled, cpu_usage, last_resource_check,
  frame_skip_counter,
  dev_open, dev_read, dev_frames, cpu_env, tick_limit, user_requests, dev_seq,
  \* history: the last reads handed to the quality gate, and how the last
  \* request of each caller was turned away at its first check
  reads, refused,
  \* whether the last-success timestamp is older than the stale window of the
  \* watchdog (120 s)
  frame_stale,
  \* whether a restart_feed was begun (377-378) less than a stale window ago
  restart_forced,
  \* Resource Monitor: the target frame rate, in units of 0.5 frames per
  \* second, and the length of the run of adjustments at full load so far
  target_fps, hot_run,
  \* Capture and save: the pending capture, the files of captured_images/
  \* (name -> "empty" or "full"), the file an external save function writes,
  \* whether a save function is configured, the status line, and of the last
  \* capture or save request: which it was, what it returned, the file name it
  \* wrote to, whether it called the save function; requests are counted
  captured_image, files, ext_file, save_function, status, saved_name,
  fn_called, ui_last, ui_result, ui_calls,
  \* Zoom and pan: the zoom level in units of 0.2, the pan offset, the mouse
  \* state of the pan gesture, the size of the frames, and of the last call of
  \* apply_zoom_and_pan that zoomed: the crop rectangle <<x1, y1, x2, y2>> and
  \* the size <<w, h>> of the image returned
  zoom_level, pan_x, pan_y, is_panning, last_mouse, frame_size, crop, out_size,
  \* A second RobustCameraView of the same process, on another source: its
  \* lifecycle flags, stop signal, Capture Loop thread, device handle and
  \* whether its frame buffer holds a frame (1) or not (0)
  peer,
  \* the _schedule_ui_update callbacks the Tk event loop holds for the
  \* session (after_idle / after, 822)
  ui_pending,
  \* 86, 1298: set at construction, cleared by shutdown_camera
  auto_reconnect

life == <<is_running, should_be_running, restart_in_progress, stop_event,
          video_thread, initialization_attempts, last_successful_frame,
          connection_stable>>
dev == <<cap, open_handles>>
buf == <<frame_buffer, buffer_lock, frame_ready_event>>
disp == <<current_frame, display_frame, dpc, d_raw, d_proc>>
tloc == <<consecutive_failures, stable_frames, t_frame, t_probe, backoff, ticks>>
env == <<camera_type, url_configured, hd_quality_enabled, dev_open, dev_read,
         dev_frames, cpu_env, tick_limit, user_requests>>
hist == <<reads, budget, refused, frame_stale, restart_forced>>
res == <<cpu_usage, last_resource_check, frame_skip_counter>>
perf == <<target_fps, hot_run>>
shot == <<captured_image, files, ext_file, save_function, status, saved_name,
          fn_called, ui_last, ui_result, ui_calls>>
zoom == <<zoom_level, pan_x, pan_y, is_panning, last_mouse, frame_size, crop,
          out_size>>
ui == <<perf, shot, zoom>>
vars == <<life, dev, buf, disp, pc, tpc, tloc, env, peer, ui_pending, auto_reconnect, ui, res, dev_seq, hist>>

\* threading.Thread.is_alive(): started and not yet ended
Alive(t) == tpc[t] \notin {"none", "dead"}
AliveThreads == {t \in Threads : Alive(t)}

\* 80-108 for the second view: every flag, event, lock and buffer is created
\* by __init__ as an attribute of the instance.
NoPeer == [is_running |-> FALSE, should_be_running |-> TRUE, stop_event |-> FALSE,
           video_thread |-> "none", cap |-> FALSE, published |-> 0]

EmptySlot == [raw_frame |-> NoFrame, processed_frame |-> NoFrame, timestamp |-> 0]

\* The session as __init__ leaves it (auto_start handled by the callers).
InitSession ==
  /\ is_running = FALSE
  /\ should_be_running = TRUE
  /\ restart_in_progress = FALSE
  /\ stop_event = FALSE
  /\ video_thread = None
  /\ initialization_attempts = 0
  /\ last_successful_frame = FALSE
  /\ connection_stable = FALSE
  /\ cap = None
  /\ open_handles = {}
  /\ frame_buffer = EmptySlot
  /\ buffer_lock = Free
  /\ frame_ready_event = FALSE
  /\ current_frame = NoFrame
  /\ display_frame = NoFrame
  /\ dpc = "idle"
  /\ d_raw = NoFrame
  /\ d_proc = NoFrame
  /\ tpc = [t \in Threads |-> "none"]
  /\ consecutive_failures = [t \in Threads |-> 0]
  /\ stable_frames = [t \in Threads |-> 0]
  /\ t_frame = [t \in Threads |-> NoFrame]
  /\ t_probe = [t \in Threads |-> 0]
  /\ backoff = [t \in Threads |-> 0]
  /\ ticks = [t \in Threads |-> 0]
  /\ cpu_usage = 0
  /\ last_resource_check = 0
  /\ frame_skip_counter = 0
  /\ target_fps = 2 * initial_target_fps
  /\ hot_run = 0
  /\ captured_image = NoFrame
  /\ ext_file = "absent"
  /\ status = "Initializing"
  /\ saved_name = NoName
  /\ fn_called = FALSE
  /\ ui_last = "none"
  /\ ui_result = "none"
  /\ ui_calls = 0
  /\ zoom_level = min_zoom
  /\ pan_x = 0
  /\ pan_y = 0
  /\ is_panning = FALSE
  /\ last_mouse = <<0, 0>>
  /\ frame_size \in FrameSizes
  /\ crop = NoCrop
  /\ out_size = <<0, 0>>
  /\ peer = NoPeer
  /\ ui_pending = 0
  /\ auto_reconnect = TRUE
  /\ dev_seq = 0
  /\ reads = <<>>
  /\ refused = [c \in Callers |-> "no"]
  /\ frame_stale = FALSE
  /\ restart_forced = FALSE

\* Where a caller continues when the request it issued returns: the watchdog
\* at its wait (926), shutdown_camera, the one caller that has cleared
\* auto_reconnect (1298), at its join (1304), the user interface idle.
Return(c) ==
  IF c = "wd" THEN "wd_wait" ELSE IF auto_reconnect THEN "idle" ELSE "sd_join"

\* _safe_close_camera: release whatever handle the session holds, cap = None.
ReleasedHandles == open_handles \ {cap}

_safe_close_camera ==
  /\ open_handles' = ReleasedHandles
  /\ cap' = None

(* ---------------- start_continuous_feed (camera.py 284-323) ------------ *)
\* Thread objects not yet used, and the one the next start creates.
FreeThreads == {t \in Threads : tpc[t] = "none"}
NewThread == CHOOSE t \in FreeThreads : \A u \in FreeThreads : t <= u

\* The check of start_continuous_feed without the test of is_running.
StartIsNoOp_flag_only == restart_in_progress

\* 287-295: under restart_lock, return if running or a request is in progress.
StartIsNoOp == is_running \/ restart_in_progress

start_check(c) ==
  /\ pc[c] = "st_chk"
  /\ IF StartIsNoOp
       THEN /\ pc' = [pc EXCEPT ![c] = Return(c)]
            /\ refused' = [refused EXCEPT ![c] =
                             IF restart_in_progress THEN "busy" ELSE "running"]
            /\ UNCHANGED restart_in_progress
       ELSE /\ FreeThreads # {}
            /\ restart_in_progress' = TRUE
            /\ pc' = [pc EXCEPT ![c] = "st_clear"]
            /\ UNCHANGED refused
  /\ UNCHANGED <<is_running, should_be_running, stop_event, video_thread,
                 initialization_attempts, last_successful_frame, connection_stable,
                 dev, buf, disp, tpc, tloc, env, peer, ui_pending, auto_reconnect, ui, res, dev_seq, reads, frame_stale, restart_forced, budget>>

\* 302: stop_event.clear()
start_clear(c) ==
  /\ pc[c] = "st_clear"
  /\ stop_event' = FALSE
  /\ pc' = [pc EXCEPT ![c] = "st_flags"]
  /\ UNCHANGED <<is_running, should_be_running, restart_in_progress, video_thread,
                 initialization_attempts, last_successful_frame, connection_stable,
                 dev, buf, disp, tpc, tloc, env, peer, ui_pending, auto_reconnect, ui, res, dev_seq, hist>>

\* 303-305: is_running = True; should_be_running = True; initialization_attempts = 0
start_flags(c) ==
  /\ pc[c] = "st_flags"
  /\ is_running' = TRUE
  /\ should_be_running' = TRUE
  /\ initialization_attempts' = 0
  /\ pc' = [pc EXCEPT ![c] = "st_thread"]
  /\ UNCHANGED <<restart_in_progress, stop_event, video_thread,
                 last_successful_frame, connection_stable,
                 dev, buf, disp, tpc, tloc, env, peer, ui_pending, auto_reconnect, ui, res, dev_seq, hist>>

\* 307-308: a fresh Thread object runs _safe_video_loop (locals 417-418).

\* 310, 818-822: _schedule_ui_update() then runs on the caller's thread: with
\* is_running set and the stop signal clear it updates the display and leaves
\* one more callback with the event loop.
Scheduled(n) == IF is_running /\ ~stop_event THEN n + 1 ELSE n

start_thread(c) ==
  /\ pc[c] = "st_thread"
  /\ FreeThreads # {}
  /\ video_thread' = NewThread
  /\ tpc' = [tpc EXCEPT ![NewThread] = "top"]
  /\ ui_pending' = Scheduled(ui_pending)
  /\ pc' = [pc EXCEPT ![c] = "st_rel"]
  /\ UNCHANGED <<is_running, should_be_running, restart_in_progress, stop_event,
                 initialization_attempts, last_successful_frame, connection_stable,
                 dev, buf, disp, tloc, env, peer, auto_reconnect, ui, res, dev_seq, hist>>

\* 312-313: under restart_lock, restart_in_progress = False; return.
start_release(c) ==
  /\ pc[c] = "st_rel"
  /\ restart_in_progress' = FALSE
  /\ pc' = [pc EXCEPT ![c] = Return(c)]
  /\ UNCHANGED <<is_running, should_be_running, stop_event, video_thread,
                 initialization_attempts, last_successful_frame, connection_stable,
                 dev, buf, disp, tpc, tloc, env, peer, ui_pending, auto_reconnect, ui, res, dev_seq, hist>>

\* 315-323: Thread() / start() (307-308) or _schedule_ui_update() (310) raises:
\* the handler logs, sets is_running = False and clears restart_in_progress.
start_except(c) ==
  /\ pc[c] \in {"st_thread", "st_rel"}
  /\ is_running' = FALSE
  /\ restart_in_progress' = FALSE
  /\ pc' = [pc EXCEPT ![c] = Return(c)]
  /\ UNCHANGED <<should_be_running, stop_event, video_thread,
                 initialization_attempts, last_successful_frame, connection_stable,
                 dev, buf, disp, tpc, tloc, env, peer, ui_pending, auto_reconnect, ui, res, dev_seq, hist>>

(* ---------------- stop_continuous_feed (camera.py 324-363) ------------- *)
\* stop_continuous_feed recording the intent before it tests the flag (as
\* toggle_continuous_feed does at 950).
stop_check_intent_first(c) ==
  /\ pc[c] = "sp_chk"
  /\ should_be_running' = FALSE
  /\ IF restart_in_progress
       THEN /\ pc' = [pc EXCEPT ![c] = Return(c)]
            /\ refused' = [refused EXCEPT ![c] = "busy"]
            /\ UNCHANGED restart_in_progress
       ELSE /\ restart_in_progress' = TRUE
            /\ pc' = [pc EXCEPT ![c] = "sp_flags"]
            /\ UNCHANGED refused
  /\ UNCHANGED <<is_running, stop_event, video_thread,
                 initialization_attempts, last_successful_frame, connection_stable,
                 dev, buf, disp, tpc, tloc, env, peer, ui_pending, auto_reconnect, ui, res, dev_seq, reads, frame_stale, restart_forced, budget>>

\* 327-335: under restart_lock, return if a request is in progress.
stop_check(c) ==
  /\ pc[c] = "sp_chk"
  /\ IF restart_in_progress
       THEN /\ pc' = [pc EXCEPT ![c] = Return(c)]
            /\ refused' = [refused EXCEPT ![c] = "busy"]
            /\ UNCHANGED restart_in_progress
       ELSE /\ restart_in_progress' = TRUE
            /\ pc' = [pc EXCEPT ![c] = "sp_flags"]
            /\ UNCHANGED refused
  /\ UNCHANGED <<is_running, should_be_running, stop_event, video_thread,
                 initialization_attempts, last_successful_frame, connection_stable,
                 dev, buf, disp, tpc, tloc, env, peer, ui_pending, auto_reconnect, ui, res, dev_seq, reads, frame_stale, restart_forced, budget>>

\* 342-343: should_be_running = False; is_running = False
stop_flags(c) ==
  /\ pc[c] = "sp_flags"
  /\ should_be_running' = FALSE
  /\ is_running' = FALSE
  /\ pc' = [pc EXCEPT ![c] = "sp_set"]
  /\ UNCHANGED <<restart_in_progress, stop_event, video_thread,
                 initialization_attempts, last_successful_frame, connection_stable,
                 dev, buf, disp, tpc, tloc, env, peer, ui_pending, auto_reconnect, ui, res, dev_seq, hist>>

\* 344: stop_event.set()
stop_set_shared(c) ==
  /\ pc[c] = "sp_set"
  /\ stop_event' = TRUE
  /\ peer' = [peer EXCEPT !.stop_event = TRUE]
  /\ pc' = [pc EXCEPT ![c] = "sp_join"]
  /\ UNCHANGED <<is_running, should_be_running, restart_in_progress, video_thread,
                 initialization_attempts, last_successful_frame, connection_stable,
                 dev, buf, disp, tpc, tloc, env, ui_pending, auto_reconnect, ui, res, dev_seq, hist>>

stop_set(c) ==
  /\ pc[c] = "sp_set"
  /\ stop_event' = TRUE
  /\ pc' = [pc EXCEPT ![c] = "sp_join"]
  /\ UNCHANGED <<is_running, should_be_running, restart_in_progress, video_thread,
                 initialization_attempts, last_successful_frame, connection_stable,
                 dev, buf, disp, tpc, tloc, env, peer, ui_pending, auto_reconnect, ui, res, dev_seq, hist>>

\* join(timeout): returns when the thread is dead, or when the timeout expires
\* with the thread still alive (blocked in a device read or in a timed sleep).
JoinReturns(th) == TRUE

\* 346-350: video_thread.join(timeout=5.0)
stop_join(c) ==
  /\ pc[c] = "sp_join"
  /\ (video_thread # None /\ Alive(video_thread)) => JoinReturns(video_thread)
  /\ pc' = [pc EXCEPT ![c] = "sp_close"]
  /\ UNCHANGED <<life, dev, buf, disp, tpc, tloc, env, peer, ui_pending, auto_reconnect, ui, res, dev_seq, hist>>

\* 352: _safe_close_camera()
stop_close(c) ==
  /\ pc[c] = "sp_close"
  /\ _safe_close_camera
  /\ pc' = [pc EXCEPT ![c] = "sp_rel"]
  /\ UNCHANGED <<life, buf, disp, tpc, tloc, env, peer, ui_pending, auto_reconnect, ui, res, dev_seq, hist>>

\* 354-355: under restart_lock, restart_in_progress = False; return.
stop_release(c) ==
  /\ pc[c] = "sp_rel"
  /\ restart_in_progress' = FALSE
  /\ pc' = [pc EXCEPT ![c] = Return(c)]
  /\ UNCHANGED <<is_running, should_be_running, stop_event, video_thread,
                 initialization_attempts, last_successful_frame, connection_stable,
                 dev, buf, disp, tpc, tloc, env, peer, ui_pending, auto_reconnect, ui, res, dev_seq, hist>>

\* restart_feed that goes ahead whatever the flag says.
restart_check_unguarded(c) ==
  /\ pc[c] = "rs_chk"
  /\ restart_in_progress' = TRUE
  /\ restart_forced' = TRUE
  /\ pc' = [pc EXCEPT ![c] = "rs_if"]
  /\ UNCHANGED <<is_running, should_be_running, stop_event, video_thread,
                 initialization_attempts, last_successful_frame, connection_stable,
                 dev, buf, disp, tpc, tloc, env, peer, ui_pending, auto_reconnect, ui, res,
                 dev_seq, reads, budget, refused, frame_stale>>

(* -------------------- restart_feed (camera.py 365-407) ----------------- *)
\* 368-376: under restart_lock, return if a request is in progress.
restart_check(c) ==
  /\ pc[c] = "rs_chk"
  /\ IF restart_in_progress
       THEN /\ pc' = [pc EXCEPT ![c] = Return(c)]
            /\ refused' = [refused EXCEPT ![c] = "busy"]
            /\ UNCHANGED <<restart_in_progress, restart_forced>>
       ELSE /\ restart_in_progress' = TRUE
            /\ restart_forced' = TRUE
            /\ pc' = [pc EXCEPT ![c] = "rs_if"]
            /\ UNCHANGED refused
  /\ UNCHANGED <<is_running, should_be_running, stop_event, video_thread,
                 initialization_attempts, last_successful_frame, connection_stable,
                 dev, buf, disp, tpc, tloc, env, peer, ui_pending, auto_reconnect, ui, res, dev_seq, reads, frame_stale, budget>>

\* 383-385: if self.is_running: should_be_running = False; is_running = False
restart_flags(c) ==
  /\ pc[c] = "rs_if"
  /\ IF is_running
       THEN /\ should_be_running' = FALSE
            /\ is_running' = FALSE
            /\ pc' = [pc EXCEPT ![c] = "rs_set"]
       ELSE /\ pc' = [pc EXCEPT ![c] = "rs_rel"]
            /\ UNCHANGED <<should_be_running, is_running>>
  /\ UNCHANGED <<restart_in_progress, stop_event, video_thread,
                 initialization_attempts, last_successful_frame, connection_stable,
                 dev, buf, disp, tpc, tloc, env, peer, ui_pending, auto_reconnect, ui, res, dev_seq, hist>>

\* 386: stop_event.set()
restart_set(c) ==
  /\ pc[c] = "rs_set"
  /\ stop_event' = TRUE
  /\ pc' = [pc EXCEPT ![c] = "rs_join"]
  /\ UNCHANGED <<is_running, should_be_running, restart_in_progress, video_thread,
                 initialization_attempts, last_successful_frame, connection_stable,
                 dev, buf, disp, tpc, tloc, env, peer, ui_pending, auto_reconnect, ui, res, dev_seq, hist>>

\* 388-389: video_thread.join(timeout=3.0)
restart_join(c) ==
  /\ pc[c] = "rs_join"
  /\ (video_thread # None /\ Alive(video_thread)) => JoinReturns(video_thread)
  /\ pc' = [pc EXCEPT ![c] = "rs_close"]
  /\ UNCHANGED <<life, dev, buf, disp, tpc, tloc, env, peer, ui_pending, auto_reconnect, ui, res, dev_seq, hist>>

\* 391: _safe_close_camera()
restart_close(c) ==
  /\ pc[c] = "rs_close"
  /\ _safe_close_camera
  /\ pc' = [pc EXCEPT ![c] = "rs_rel"]
  /\ UNCHANGED <<life, buf, disp, tpc, tloc, env, peer, ui_pending, auto_reconnect, ui, res, dev_seq, hist>>

\* 393-396: time.sleep(2.0); under restart_lock, restart_in_progress = False
restart_release(c) ==
  /\ pc[c] = "rs_rel"
  /\ restart_in_progress' = FALSE
  /\ pc' = [pc EXCEPT ![c] = "rs_start"]
  /\ UNCHANGED <<is_running, should_be_running, stop_event, video_thread,
                 initialization_attempts, last_successful_frame, connection_stable,
                 dev, buf, disp, tpc, tloc, env, peer, ui_pending, auto_reconnect, ui, res, dev_seq, hist>>

\* 398-399: initialization_attempts = 0; self.start_continuous_feed()
restart_start(c) ==
  /\ pc[c] = "rs_start"
  /\ initialization_attempts' = 0
  /\ pc' = [pc EXCEPT ![c] = "st_chk"]
  /\ UNCHANGED <<is_running, should_be_running, restart_in_progress, stop_event,
                 video_thread, last_successful_frame, connection_stable,
                 dev, buf, disp, tpc, tloc, env, peer, ui_pending, auto_reconnect, ui, res, dev_seq, hist>>

(* ----------------- shutdown_camera (camera.py 1288-1325) ---------------- *)
\* 1297-1301: should_be_running = False, auto_reconnect = False, then
\* stop_continuous_feed()
shutdown_flags(c) ==
  /\ pc[c] = "sd"
  /\ should_be_running' = FALSE
  /\ auto_reconnect' = FALSE
  /\ pc' = [pc EXCEPT ![c] = "sp_chk"]
  /\ UNCHANGED <<is_running, restart_in_progress, stop_event, video_thread,
                 initialization_attempts, last_successful_frame, connection_stable,
                 dev, buf, disp, tpc, tloc, env, peer, ui_pending, ui, res, dev_seq,
                 hist>>

\* 1304-1312: video_thread.join(timeout=10.0) when the thread is alive
shutdown_join(c) ==
  /\ pc[c] = "sd_join"
  /\ (video_thread # None /\ Alive(video_thread)) => JoinReturns(video_thread)
  /\ pc' = [pc EXCEPT ![c] = "sd_close"]
  /\ UNCHANGED <<life, dev, buf, disp, tpc, tloc, env, peer, ui_pending, auto_reconnect, ui,
                 res, dev_seq, hist>>

\* 1315-1320: _safe_close_camera(); shutdown_camera returns.
shutdown_close(c) ==
  /\ pc[c] = "sd_close"
  /\ _safe_close_camera
  /\ pc' = [pc EXCEPT ![c] = "down"]
  /\ UNCHANGED <<life, buf, disp, tpc, tloc, env, peer, ui_pending, auto_reconnect, ui, res,
                 dev_seq, hist>>

ShutdownStep(c) == shutdown_flags(c) \/ shutdown_join(c) \/ shutdown_close(c)

(* -------------- toggle_continuous_feed (camera.py 947-960) ------------- *)
\* 950-956: running: should_be_running = False, stop; else = True, start.
toggle_continuous_feed(c) ==
  /\ pc[c] = "tg"
  /\ should_be_running' = ~is_running
  /\ pc' = [pc EXCEPT ![c] = IF is_running THEN "sp_chk" ELSE "st_chk"]
  /\ UNCHANGED <<is_running, restart_in_progress, stop_event, video_thread,
                 initialization_attempts, last_successful_frame, connection_stable,
                 dev, buf, disp, tpc, tloc, env, peer, ui_pending, auto_reconnect, ui, res, dev_seq, hist>>

(* ------------------- requests of the user interface -------------------- *)
\* start_camera / stop_camera (1340-1346), restart_feed, the feed button (225).
UserRequests == {"st_chk", "sp_chk", "rs_chk", "tg"}

user_request(r) ==
  /\ pc["user"] = "idle"
  /\ r \in user_requests
  /\ budget["user"] > 0
  /\ budget' = [budget EXCEPT !["user"] = @ - 1]
  /\ refused' = [refused EXCEPT !["user"] = "no"]
  /\ pc' = [pc EXCEPT !["user"] = r]
  /\ UNCHANGED <<life, dev, buf, disp, tpc, tloc, env, peer, ui_pending, auto_reconnect, ui, res, dev_seq, reads, frame_stale, restart_forced>>

(* ---------------- watchdog thread (camera.py 883-933) ------------------ *)
\* 891: while not self.stop_event.is_set()
\* 896-898: until the 30 s poll interval has elapsed the loop only waits and
\* tests again; the step is the loop test of an iteration that polls.
watchdog_loop ==
  /\ pc["wd"] = "wd_top"
  /\ IF stop_event
       THEN /\ pc' = [pc EXCEPT !["wd"] = "wd_exit"]
            /\ UNCHANGED <<budget, refused>>
       ELSE /\ budget["wd"] > 0
            /\ budget' = [budget EXCEPT !["wd"] = @ - 1]
            /\ refused' = [refused EXCEPT !["wd"] = "no"]
            /\ pc' = [pc EXCEPT !["wd"] = "wd_chk"]
  /\ UNCHANGED <<life, dev, buf, disp, tpc, tloc, env, peer, ui_pending, auto_reconnect, ui, res, dev_seq, reads, frame_stale, restart_forced>>

\* 903-905: restart_in_progress is read under restart_lock: continue when set.
watchdog_poll ==
  /\ pc["wd"] = "wd_chk"
  /\ pc' = [pc EXCEPT !["wd"] = IF restart_in_progress THEN "wd_top" ELSE "wd_eval"]
  /\ UNCHANGED <<life, dev, buf, disp, tpc, tloc, env, peer, ui_pending, auto_reconnect, ui, res, dev_seq, hist>>

\* 908: should be running but is not
WatchdogStartTrigger ==
  should_be_running /\ ~is_running /\ ~restart_in_progress

\* 908-926: trigger (a) start_continuous_feed(); else trigger (b), with a
\* last-success timestamp older than 120 s, restart_feed(); else wait.
WatchdogCall(stale) ==
  IF WatchdogStartTrigger THEN "st_chk"
  ELSE IF last_successful_frame /\ stale THEN "rs_chk"
  ELSE "wd_wait"

watchdog_eval ==
  /\ pc["wd"] = "wd_eval"
  /\ pc' = [pc EXCEPT !["wd"] = WatchdogCall(frame_stale)]
  /\ UNCHANGED <<life, dev, buf, disp, tpc, tloc, env, peer, ui_pending, auto_reconnect, ui, res, dev_seq, hist>>

\* 915-916: time_since_frame.total_seconds() > 120: the stale window passes
\* with no successful frame since the timestamp was set.
window_elapses ==
  /\ last_successful_frame
  /\ ~frame_stale
  /\ frame_stale' = TRUE
  /\ restart_forced' = FALSE
  /\ UNCHANGED <<life, dev, buf, disp, pc, tpc, tloc, env, peer, ui_pending, auto_reconnect, ui, res, dev_seq, reads,
                 budget, refused>>

\* A stale window (120 s) passes since restart_feed was last begun.
restart_window_elapses ==
  /\ restart_forced
  /\ restart_forced' = FALSE
  /\ UNCHANGED <<life, dev, buf, disp, pc, tpc, tloc, env, peer, ui_pending, auto_reconnect, ui,
                 res, dev_seq, reads, budget, refused, frame_stale>>

\* 926: self.stop_event.wait(self.reconnect_delay)
watchdog_wait ==
  /\ pc["wd"] = "wd_wait"
  /\ pc' = [pc EXCEPT !["wd"] = "wd_top"]
  /\ UNCHANGED <<life, dev, buf, disp, tpc, tloc, env, peer, ui_pending, auto_reconnect, ui, res, dev_seq, hist>>

(* ------------- Capture Loop: _safe_video_loop (camera.py 409-554) ------ *)
SetT(f, t, v) == [f EXCEPT ![t] = v]

\* 421: while not self.stop_event.is_set() and self.is_running
LoopContinues == ~stop_event /\ is_running

\* Iterations are counted, and bounded, in the scenarios that set tick_limit.
MayTick(t) == tick_limit = 0 \/ ticks[t] < tick_limit

loop_top(t) ==
  /\ tpc[t] = "top"
  /\ IF LoopContinues
       THEN /\ MayTick(t)
            /\ tpc' = SetT(tpc, t, "skip")
            /\ ticks' = SetT(ticks, t, IF tick_limit = 0 THEN 0 ELSE ticks[t] + 1)
       ELSE /\ tpc' = SetT(tpc, t, "fin")
            /\ UNCHANGED ticks
  /\ backoff' = SetT(backoff, t, 0)
  /\ UNCHANGED <<life, dev, buf, disp, pc, consecutive_failures, stable_frames,
                 t_frame, t_probe, env, peer, ui_pending, auto_reconnect, ui, res, dev_seq, hist>>

\* 423 and _should_skip_frame (717-730): the CPU load is sampled anew when the
\* resource check interval has elapsed since the last check (always at the
\* first check: last_resource_check starts at 0); skip when the load exceeds
\* the threshold.
ShouldSkip(cpu) == cpu > frame_skip_threshold

Samples == IF last_resource_check = 0 THEN cpu_env ELSE cpu_env \cup {cpu_usage}

loop_skip_check(t) ==
  /\ tpc[t] = "skip"
  /\ \E sample \in Samples :
       /\ cpu_usage' = sample
       /\ last_resource_check' = 1
       /\ tpc' = SetT(tpc, t, IF ShouldSkip(sample) THEN "skipwait" ELSE "conn")
  /\ UNCHANGED <<life, dev, buf, disp, pc, tloc, env, peer, ui_pending, auto_reconnect, ui, frame_skip_counter,
                 dev_seq, hist>>

\* The skip counter, counted up to MaxSkips.
Skipped(n) == Min(n + 1, MaxSkips)

\* A skipped tick that also lets go of the device.
loop_skip_wait_closing(t) ==
  /\ tpc[t] = "skipwait"
  /\ frame_skip_counter' = Skipped(frame_skip_counter)
  /\ _safe_close_camera
  /\ tpc' = SetT(tpc, t, "top")
  /\ UNCHANGED <<life, buf, disp, pc, tloc, env, peer, ui_pending, auto_reconnect, ui, cpu_usage,
                 last_resource_check, dev_seq, hist>>

\* 424-426: frame_skip_counter += 1; stop_event.wait(0.02); continue
loop_skip_wait(t) ==
  /\ tpc[t] = "skipwait"
  /\ frame_skip_counter' = Skipped(frame_skip_counter)
  /\ tpc' = SetT(tpc, t, "top")
  /\ UNCHANGED <<life, dev, buf, disp, pc, tloc, env, peer, ui_pending, auto_reconnect, ui, cpu_usage,
                 last_resource_check, dev_seq, hist>>

\* What a read of the device can return: nothing when the handle is not open.
ReadOutcomes == IF cap \in open_handles THEN dev_read ELSE {"fail"}

\* A frame passes the connection test (674-686).
TestGood(r) == r = "high" \/ (r = "low" /\ ~hd_quality_enabled)

\* _safe_test_camera_connection (662-699): up to three reads, True on the first
\* good one, False when the stop signal is seen or all three reads are bad.
TestResults ==
  IF camera_type = "HTTP" THEN {TRUE}
  ELSE IF cap = None \/ cap \notin open_handles \/ stop_event THEN {FALSE}
  ELSE {TestGood(r) : r \in ReadOutcomes}

\* 428: if not self.cap or not self._safe_test_camera_connection()
loop_connection_check(t) ==
  /\ tpc[t] = "conn"
  /\ IF cap = None
       THEN tpc' = SetT(tpc, t, "initchk")
       ELSE \E ok \in TestResults : tpc' = SetT(tpc, t, IF ok THEN "pace" ELSE "initchk")
  /\ UNCHANGED <<life, dev, buf, disp, pc, tloc, env, peer, ui_pending, auto_reconnect, ui, res, dev_seq, hist>>

\* The cooldown taken only once the attempts have passed the maximum.
CooldownDue_strict == initialization_attempts > max_init_attempts

\* 429: if self.initialization_attempts >= self.max_init_attempts
CooldownDue == initialization_attempts >= max_init_attempts

loop_init_check(t) ==
  /\ tpc[t] = "initchk"
  /\ tpc' = SetT(tpc, t, IF CooldownDue THEN "cooldown" ELSE "i_close")
  /\ UNCHANGED <<life, dev, buf, disp, pc, tloc, env, peer, ui_pending, auto_reconnect, ui, res, dev_seq, hist>>

\* 434-436: stop_event.wait(30.0); initialization_attempts = 0; continue
loop_cooldown(t) ==
  /\ tpc[t] = "cooldown"
  /\ initialization_attempts' = 0
  /\ tpc' = SetT(tpc, t, "top")
  /\ UNCHANGED <<is_running, should_be_running, restart_in_progress, stop_event,
                 video_thread, last_successful_frame, connection_stable,
                 dev, buf, disp, pc, tloc, env, peer, ui_pending, auto_reconnect, ui, res, dev_seq, hist>>

(* ----------- _safe_initialize_camera (camera.py 556-660) --------------- *)
\* 564-565: self._safe_close_camera(); time.sleep(0.5)
init_close(t) ==
  /\ tpc[t] = "i_close"
  /\ _safe_close_camera
  /\ tpc' = SetT(tpc, t, "i_open")
  /\ UNCHANGED <<life, buf, disp, pc, tloc, env, peer, ui_pending, auto_reconnect, ui, res, dev_seq, hist>>

\* 567 / 613 / 616: which branch of the source kind is taken
InitBranch ==
  IF camera_type = "RTSP" /\ url_configured THEN "RTSP"
  ELSE IF camera_type = "HTTP" /\ url_configured THEN "HTTP"
  ELSE "USB"

\* 574 / 618: cv2.VideoCapture(...) constructs a handle (open or not);
\* 613-614: an HTTP source returns True without any handle.
init_open(t) ==
  /\ tpc[t] = "i_open"
  /\ IF InitBranch = "HTTP"
       THEN /\ tpc' = SetT(tpc, t, "i_ok")
            /\ UNCHANGED open_handles
       ELSE /\ \E ok \in dev_open :
                 open_handles' = IF ok THEN open_handles \cup {t} ELSE open_handles
            /\ tpc' = SetT(tpc, t, "i_assign")
  /\ UNCHANGED <<life, cap, buf, disp, pc, tloc, env, peer, ui_pending, auto_reconnect, ui, res, dev_seq, hist>>

\* 574 / 618: self.cap = <the handle>; the handle cap held before loses its
\* last reference and is released.  576-581 / 631-636: not opened, return False.
init_assign(t) ==
  /\ tpc[t] = "i_assign"
  /\ cap' = t
  /\ open_handles' = open_handles \ ({cap} \ {t})
  /\ tpc' = SetT(tpc, t, IF t \notin open_handles THEN "i_fail"
                          ELSE IF InitBranch = "RTSP" THEN "i_probe" ELSE "i_test")
  /\ t_probe' = SetT(t_probe, t, 0)
  /\ UNCHANGED <<life, buf, disp, pc, consecutive_failures, stable_frames, t_frame,
                 backoff, ticks, env, peer, ui_pending, auto_reconnect, ui, res, dev_seq, hist>>

\* The probe loop that gives up without closing the stream.
init_probe_leaking(t) ==
  /\ tpc[t] = "i_probe"
  /\ IF t_probe[t] >= quality_test_attempts
       THEN /\ tpc' = SetT(tpc, t, "i_fail")
            /\ UNCHANGED <<dev, t_probe>>
       ELSE IF stop_event
       THEN /\ tpc' = SetT(tpc, t, "i_fail")
            /\ UNCHANGED <<dev, t_probe, backoff>>
       ELSE IF cap = None
       THEN /\ _safe_close_camera
            /\ tpc' = SetT(tpc, t, "i_fail")
            /\ UNCHANGED t_probe
       ELSE \E r \in ReadOutcomes :
              /\ IF r = "high"
                   THEN /\ tpc' = SetT(tpc, t, "i_test")
                        /\ UNCHANGED t_probe
                   ELSE /\ t_probe' = SetT(t_probe, t, t_probe[t] + 1)
                        /\ UNCHANGED tpc
              /\ UNCHANGED dev
  /\ UNCHANGED <<life, buf, disp, pc, consecutive_failures, stable_frames, t_frame,
                 backoff, ticks, env, peer, ui_pending, auto_reconnect, ui, res, dev_seq, hist>>

\* 588-611: the probe loop of an RTSP source, one iteration per step.
\*   590-591 stop signal seen: return False (the handle is left as it is);
\*   593 self.cap is None (closed by another thread): AttributeError, 653-660;
\*   596-602 an HD frame: break; 603 otherwise sleep and try again;
\*   605-611 the attempts are used up: _safe_close_camera(), return False.
init_probe(t) ==
  /\ tpc[t] = "i_probe"
  /\ IF t_probe[t] >= quality_test_attempts
       THEN /\ _safe_close_camera
            /\ tpc' = SetT(tpc, t, "i_fail")
            /\ UNCHANGED t_probe
       ELSE IF stop_event
       THEN /\ tpc' = SetT(tpc, t, "i_fail")
            /\ UNCHANGED <<dev, t_probe, backoff>>
       ELSE IF cap = None
       THEN /\ _safe_close_camera
            /\ tpc' = SetT(tpc, t, "i_fail")
            /\ UNCHANGED t_probe
       ELSE \E r \in ReadOutcomes :
              /\ IF r = "high"
                   THEN /\ tpc' = SetT(tpc, t, "i_test")
                        /\ UNCHANGED t_probe
                   ELSE /\ t_probe' = SetT(t_probe, t, t_probe[t] + 1)
                        /\ UNCHANGED tpc
              /\ UNCHANGED dev
  /\ UNCHANGED <<life, buf, disp, pc, consecutive_failures, stable_frames, t_frame,
                 backoff, ticks, env, peer, ui_pending, auto_reconnect, ui, res, dev_seq, hist>>

\* 644-651: success = self._safe_test_camera_connection(); close on failure.
init_test(t) ==
  /\ tpc[t] = "i_test"
  /\ \E ok \in TestResults :
       IF ok THEN /\ tpc' = SetT(tpc, t, "i_ok")
                  /\ UNCHANGED dev
             ELSE /\ tpc' = SetT(tpc, t, "i_fail")
                  /\ _safe_close_camera
  /\ UNCHANGED <<life, buf, disp, pc, tloc, env, peer, ui_pending, auto_reconnect, ui, res, dev_seq, hist>>

\* 439-446: initialization failed: count it, wait, continue.
AfterInitFailure(cf) == IF cf > max_consecutive_failures THEN 0 ELSE cf

\* 441-445: the seconds waited after the failure that brought the count to cf:
\* reconnect_delay * 2 past max_consecutive_failures, else min(cf * 2, 10).
BackoffWait(cf) ==
  IF cf > max_consecutive_failures THEN reconnect_delay * 2
  ELSE Min(cf * backoff_step, backoff_cap)

init_failed(t) ==
  /\ tpc[t] = "i_fail"
  /\ consecutive_failures' =
       SetT(consecutive_failures, t, AfterInitFailure(consecutive_failures[t] + 1))
  /\ backoff' = SetT(backoff, t, BackoffWait(consecutive_failures[t] + 1))
  /\ initialization_attempts' = initialization_attempts + 1
  /\ tpc' = SetT(tpc, t, "top")
  /\ UNCHANGED <<is_running, should_be_running, restart_in_progress, stop_event,
                 video_thread, last_successful_frame, connection_stable,
                 dev, buf, disp, pc, stable_frames, t_frame, t_probe,
                 ticks, env, peer, ui_pending, auto_reconnect, ui, res, dev_seq, hist>>

\* 447-449: initialization succeeded: consecutive_failures = 0, attempts = 0.
init_succeeded(t) ==
  /\ tpc[t] = "i_ok"
  /\ consecutive_failures' = SetT(consecutive_failures, t, 0)
  /\ initialization_attempts' = 0
  /\ tpc' = SetT(tpc, t, "pace")
  /\ UNCHANGED <<is_running, should_be_running, restart_in_progress, stop_event,
                 video_thread, last_successful_frame, connection_stable,
                 dev, buf, disp, pc, stable_frames, t_frame, t_probe, backoff,
                 ticks, env, peer, ui_pending, auto_reconnect, ui, res, dev_seq, hist>>

(* ------------------- streaming (camera.py 451-532) --------------------- *)
\* 451-455: the pacing interval has not elapsed: time.sleep(0.04); continue
loop_pace(t) ==
  /\ tpc[t] = "pace"
  /\ \E elapsed \in BOOLEAN : tpc' = SetT(tpc, t, IF elapsed THEN "read" ELSE "top")
  /\ UNCHANGED <<life, dev, buf, disp, pc, tloc, env, peer, ui_pending, auto_reconnect, ui, res, dev_seq, hist>>

\* The frame a read returns: its quality and its identity.
Frame(q, id) == <<q, id>>
Quality(f) == f[1]
FrameId(f) == f[2]
NextFrameId == Min(dev_seq + 1, dev_frames)

\* 464: the source is quality gated
Gated == camera_type = "RTSP" /\ hd_quality_enabled

Remember(h, r) == IF Len(h) < MaxWindow THEN Append(h, r) ELSE Append(Tail(h), r)

\* 457-458: ret, frame = self.cap.read(); with cap None the call raises
\* AttributeError, caught at 534.
loop_read(t) ==
  /\ tpc[t] = "read"
  /\ IF cap = None
       THEN /\ tpc' = SetT(tpc, t, "err")
            /\ UNCHANGED <<t_frame, dev_seq, reads>>
       ELSE \E r \in ReadOutcomes :
              /\ t_frame' = SetT(t_frame, t, IF r = "fail" THEN NoFrame
                                               ELSE Frame(r, NextFrameId))
              /\ dev_seq' = IF r = "fail" THEN dev_seq ELSE NextFrameId
              /\ reads' = IF Gated THEN Remember(reads, r) ELSE reads
              /\ tpc' = SetT(tpc, t, "gate")
  /\ UNCHANGED <<life, dev, buf, disp, pc, budget, refused, frame_stale, restart_forced,
                 consecutive_failures,
                 stable_frames, t_probe, backoff, ticks, env, peer, ui_pending, auto_reconnect, ui, res>>

\* 465: h >= self.min_hd_height and w >= self.min_hd_width
Qualifies(f) == Quality(f) = "high"

\* The stable count that a frame below the minimum does not reset.
StableAfter_no_reset(n, f) == Min(n + 1, RequiredStable)

\* 466 / 486 / 489: the stable count after a good read; the code only tests
\* it against 3, so the model keeps it up to RequiredStable.
StableAfter(n, f) ==
  IF Gated /\ ~Qualifies(f) THEN 0 ELSE Min(n + 1, RequiredStable)

\* 469 / 488: the frame is published
Accepts(n, f) == ~Gated \/ (Qualifies(f) /\ StableAfter(n, f) >= RequiredStable)

\* 518: if consecutive_failures > self.max_consecutive_failures
TooManyFailures(cf) == cf > max_consecutive_failures

\* 460-487 a good read goes through the quality gate; 515-527 a failed read
\* is counted, and past the maximum the handle is released (523).
loop_gate(t) ==
  /\ tpc[t] = "gate"
  /\ IF t_frame[t] = NoFrame
       THEN /\ consecutive_failures' =
                 SetT(consecutive_failures, t, consecutive_failures[t] + 1)
            /\ stable_frames' = SetT(stable_frames, t, 0)
            /\ IF TooManyFailures(consecutive_failures[t] + 1)
                 THEN /\ _safe_close_camera
                      /\ tpc' = SetT(tpc, t, "recover")
                 ELSE /\ tpc' = SetT(tpc, t, "failsleep")
                      /\ UNCHANGED dev
       ELSE /\ stable_frames' =
                 SetT(stable_frames, t, StableAfter(stable_frames[t], t_frame[t]))
            /\ tpc' = SetT(tpc, t, IF Accepts(stable_frames[t], t_frame[t])
                                     THEN "p_lock" ELSE "top")
            /\ UNCHANGED <<consecutive_failures, dev>>
  /\ UNCHANGED <<life, buf, disp, pc, t_frame, t_probe, backoff, ticks, env, peer, ui_pending, auto_reconnect, ui, res, dev_seq, hist>>

\* 524-525: time.sleep(2); consecutive_failures = 0
loop_recover(t) ==
  /\ tpc[t] = "recover"
  /\ consecutive_failures' = SetT(consecutive_failures, t, 0)
  /\ tpc' = SetT(tpc, t, "top")
  /\ UNCHANGED <<life, dev, buf, disp, pc, stable_frames, t_frame, t_probe, backoff,
                 ticks, env, peer, ui_pending, auto_reconnect, ui, res, dev_seq, hist>>

\* 527: time.sleep(0.1)
loop_fail_sleep(t) ==
  /\ tpc[t] = "failsleep"
  /\ tpc' = SetT(tpc, t, "top")
  /\ UNCHANGED <<life, dev, buf, disp, pc, tloc, env, peer, ui_pending, auto_reconnect, ui, res, dev_seq, hist>>

\* _process_frame_optimized (760-776) and frame.copy(): the display frame and
\* the raw copy made of one read.
RawCopy(f) == <<"raw", FrameId(f)>>
Processed(f) == <<"processed", FrameId(f)>>

\* 473 / 493: with self.frame_buffer['buffer_lock']
LockFree == buffer_lock = Free

publish_lock(t) ==
  /\ tpc[t] = "p_lock"
  /\ LockFree
  /\ buffer_lock' = Capture
  /\ tpc' = SetT(tpc, t, "p_raw")
  /\ UNCHANGED <<life, dev, frame_buffer, frame_ready_event, disp, pc, tloc, env, peer, ui_pending, auto_reconnect, ui,
                 res, dev_seq, hist>>

\* A publish that keeps the raw frame the slot already holds.
publish_raw_keep_first(t) ==
  /\ tpc[t] = "p_raw"
  /\ frame_buffer' = IF frame_buffer.raw_frame = NoFrame
                       THEN [frame_buffer EXCEPT !.raw_frame = RawCopy(t_frame[t])]
                       ELSE frame_buffer
  /\ tpc' = SetT(tpc, t, "p_proc")
  /\ UNCHANGED <<life, dev, buffer_lock, frame_ready_event, disp, pc, tloc, env, peer, ui_pending, auto_reconnect, ui,
                 res, dev_seq, hist>>

\* 474 / 494: frame_buffer['raw_frame'] = copy of the frame
publish_raw(t) ==
  /\ tpc[t] = "p_raw"
  /\ frame_buffer' = [frame_buffer EXCEPT !.raw_frame = RawCopy(t_frame[t])]
  /\ tpc' = SetT(tpc, t, "p_proc")
  /\ UNCHANGED <<life, dev, buffer_lock, frame_ready_event, disp, pc, tloc, env, peer, ui_pending, auto_reconnect, ui,
                 res, dev_seq, hist>>

\* 475 / 495: frame_buffer['processed_frame'] = processed_frame
publish_processed(t) ==
  /\ tpc[t] = "p_proc"
  /\ frame_buffer' = [frame_buffer EXCEPT !.processed_frame = Processed(t_frame[t])]
  /\ tpc' = SetT(tpc, t, "p_ts")
  /\ UNCHANGED <<life, dev, buffer_lock, frame_ready_event, disp, pc, tloc, env, peer, ui_pending, auto_reconnect, ui,
                 res, dev_seq, hist>>

\* 476 / 496: frame_buffer['timestamp'] = current_time; the lock is released.
publish_timestamp(t) ==
  /\ tpc[t] = "p_ts"
  /\ frame_buffer' = [frame_buffer EXCEPT !.timestamp = FrameId(t_frame[t])]
  /\ buffer_lock' = Free
  /\ tpc' = SetT(tpc, t, "p_set")
  /\ UNCHANGED <<life, dev, frame_ready_event, disp, pc, tloc, env, peer, ui_pending, auto_reconnect, ui,
                 res, dev_seq, hist>>

\* 478 / 498: self.frame_ready_event.set()
publish_signal(t) ==
  /\ tpc[t] = "p_set"
  /\ frame_ready_event' = TRUE
  /\ tpc' = SetT(tpc, t, "post")
  /\ UNCHANGED <<life, dev, frame_buffer, buffer_lock, disp, pc, tloc, env, peer, ui_pending, auto_reconnect, ui,
                 res, dev_seq, hist>>

\* 504-510: consecutive_failures = 0; last_successful_frame = now;
\* connection_stable = True
loop_post(t) ==
  /\ tpc[t] = "post"
  /\ consecutive_failures' = SetT(consecutive_failures, t, 0)
  /\ last_successful_frame' = TRUE
  /\ frame_stale' = FALSE
  /\ connection_stable' = TRUE
  /\ t_frame' = SetT(t_frame, t, NoFrame)
  /\ tpc' = SetT(tpc, t, "top")
  /\ UNCHANGED <<is_running, should_be_running, restart_in_progress, stop_event,
                 video_thread, initialization_attempts,
                 dev, buf, disp, pc, stable_frames, t_probe, backoff,
                 ticks, env, peer, ui_pending, auto_reconnect, ui, res, dev_seq, reads, budget, refused,
                 restart_forced>>

\* _adjust_performance (741-747), on the target in units of 0.5 fps:
\* above 85% CPU one frame per second less, never below min_fps; below 50% CPU
\* half a frame per second more, never above max_fps.
AdjustedFps_unclamped(cpu, fps) ==
  IF cpu > 85 THEN fps - 2
  ELSE IF cpu < 50 THEN fps + 1
  ELSE fps

AdjustedFps(cpu, fps) ==
  IF cpu > 85 THEN Max(2 * min_fps, fps - 2)
  ELSE IF cpu < 50 THEN Min(2 * max_fps, fps + 1)
  ELSE fps

\* The run of adjustments made at full load since __init__: -1 once an
\* adjustment was made at another load.
HotRunAfter(cpu, n) ==
  IF n >= 0 /\ cpu = 100 THEN Min(n + 1, MaxHotRun) ELSE -1

\* 504-510 then 529-532: the end of an iteration when the housekeeping
\* interval has elapsed: _update_resource_usage(); _adjust_performance()
loop_housekeeping(t) ==
  /\ tpc[t] = "post"
  /\ consecutive_failures' = SetT(consecutive_failures, t, 0)
  /\ last_successful_frame' = TRUE
  /\ frame_stale' = FALSE
  /\ connection_stable' = TRUE
  /\ t_frame' = SetT(t_frame, t, NoFrame)
  /\ \E sample \in cpu_env :
       /\ cpu_usage' = sample
       /\ target_fps' = AdjustedFps(sample, target_fps)
       /\ hot_run' = HotRunAfter(sample, hot_run)
  /\ tpc' = SetT(tpc, t, "top")
  /\ UNCHANGED <<is_running, should_be_running, restart_in_progress, stop_event,
                 video_thread, initialization_attempts,
                 dev, buf, disp, pc, stable_frames, t_probe, backoff,
                 ticks, env, peer, ui_pending, auto_reconnect, shot, zoom, last_resource_check, frame_skip_counter,
                 dev_seq, reads,
                 budget, refused, restart_forced>>

\* 534-542: loop_error: consecutive_failures += 1; stable_frames = 0;
\* _safe_close_camera(); time.sleep(min(consecutive_failures, 10))
loop_error(t) ==
  /\ tpc[t] = "err"
  /\ consecutive_failures[t] < MaxErrors
  /\ consecutive_failures' =
       SetT(consecutive_failures, t, consecutive_failures[t] + 1)
  /\ stable_frames' = SetT(stable_frames, t, 0)
  /\ _safe_close_camera
  /\ tpc' = SetT(tpc, t, "top")
  /\ UNCHANGED <<life, buf, disp, pc, t_frame, t_probe, backoff, ticks, env, peer, ui_pending, auto_reconnect, ui, res, dev_seq, hist>>

\* The thread ends and leaves the handle of the session as it is.
loop_exit_keeping(t) ==
  /\ tpc[t] = "fin"
  /\ tpc' = SetT(tpc, t, "dead")
  /\ consecutive_failures' = SetT(consecutive_failures, t, 0)
  /\ stable_frames' = SetT(stable_frames, t, 0)
  /\ t_frame' = SetT(t_frame, t, NoFrame)
  /\ ticks' = SetT(ticks, t, 0)
  /\ UNCHANGED <<life, dev, buf, disp, pc, t_probe, backoff, env, peer, ui_pending, auto_reconnect, ui, res, dev_seq, hist>>

\* 549-554: finally: self._safe_close_camera(); the thread ends (the probe
\* counter keeps the value the last initialization left).
loop_exit(t) ==
  /\ tpc[t] = "fin"
  /\ _safe_close_camera
  /\ tpc' = SetT(tpc, t, "dead")
  /\ consecutive_failures' = SetT(consecutive_failures, t, 0)
  /\ stable_frames' = SetT(stable_frames, t, 0)
  /\ t_frame' = SetT(t_frame, t, NoFrame)
  /\ ticks' = SetT(ticks, t, 0)
  /\ UNCHANGED <<life, buf, disp, pc, t_probe, backoff, env, peer, ui_pending, auto_reconnect, ui, res, dev_seq, hist>>

(* -------- display consumer: _update_display_optimized (824-843) -------- *)
\* A tick that goes on to take the slot without testing the signal.
display_check_unsignalled ==
  /\ dpc = "idle"
  /\ dpc' = "lock"
  /\ UNCHANGED <<life, dev, buf, current_frame, display_frame, d_raw, d_proc,
                 pc, tpc, tloc, env, peer, ui_pending, auto_reconnect, ui, res, dev_seq, hist>>

\* 828-829: return when no new frame is signalled
display_check ==
  /\ dpc = "idle"
  /\ dpc' = IF frame_ready_event THEN "lock" ELSE "idle"
  /\ UNCHANGED <<life, dev, buf, current_frame, display_frame, d_raw, d_proc,
                 pc, tpc, tloc, env, peer, ui_pending, auto_reconnect, ui, res, dev_seq, hist>>

\* 818-822: a pending _schedule_ui_update callback runs on the event loop:
\* with is_running set and the stop signal clear it updates the display and
\* schedules itself again; otherwise it returns and its chain ends.
schedule_ui_update ==
  /\ ui_pending > 0
  /\ IF is_running /\ ~stop_event
       THEN display_check
       ELSE /\ ui_pending' = ui_pending - 1
            /\ UNCHANGED <<life, dev, buf, disp, pc, tpc, tloc, env, peer,
                           auto_reconnect, ui, res,
                           dev_seq, hist>>

\* A take that does not wait for buffer_lock.
display_lock_no_wait ==
  /\ dpc = "lock"
  /\ buffer_lock' = Display
  /\ dpc' = "raw"
  /\ UNCHANGED <<life, dev, frame_buffer, frame_ready_event, current_frame,
                 display_frame, d_raw, d_proc, pc, tpc, tloc, env, peer, ui_pending, auto_reconnect, ui, res,
                 dev_seq, hist>>

\* 832: with self.frame_buffer['buffer_lock']
display_lock ==
  /\ dpc = "lock"
  /\ LockFree
  /\ buffer_lock' = Display
  /\ dpc' = "raw"
  /\ UNCHANGED <<life, dev, frame_buffer, frame_ready_event, current_frame,
                 display_frame, d_raw, d_proc, pc, tpc, tloc, env, peer, ui_pending, auto_reconnect, ui, res,
                 dev_seq, hist>>

\* 833: current_frame = self.frame_buffer['raw_frame']
display_take_raw ==
  /\ dpc = "raw"
  /\ d_raw' = frame_buffer.raw_frame
  /\ dpc' = "proc"
  /\ UNCHANGED <<life, dev, buf, current_frame, display_frame, d_proc,
                 pc, tpc, tloc, env, peer, ui_pending, auto_reconnect, ui, res, dev_seq, hist>>

\* 834-835: display_frame = self.frame_buffer['processed_frame'];
\* self.frame_ready_event.clear(); the lock is released.
display_take_processed ==
  /\ dpc = "proc"
  /\ d_proc' = frame_buffer.processed_frame
  /\ frame_ready_event' = FALSE
  /\ buffer_lock' = Free
  /\ dpc' = "store"
  /\ UNCHANGED <<life, dev, frame_buffer, current_frame, display_frame, d_raw,
                 pc, tpc, tloc, env, peer, ui_pending, auto_reconnect, ui, res, dev_seq, hist>>

\* A take that clears the signal once it has released buffer_lock.
display_store_clearing ==
  /\ dpc = "store"
  /\ IF d_proc = NoFrame
       THEN UNCHANGED <<current_frame, display_frame>>
       ELSE /\ current_frame' = d_raw
            /\ display_frame' = d_proc
  /\ frame_ready_event' = FALSE
  /\ d_raw' = NoFrame
  /\ d_proc' = NoFrame
  /\ dpc' = "idle"
  /\ UNCHANGED <<life, dev, frame_buffer, buffer_lock, pc, tpc, tloc, env, peer, ui_pending, auto_reconnect, ui,
                 res, dev_seq, hist>>

\* 837-843: if display_frame is None: return; under frame_lock
\* self.current_frame = current_frame; self.display_frame = display_frame
display_store ==
  /\ dpc = "store"
  /\ IF d_proc = NoFrame
       THEN UNCHANGED <<current_frame, display_frame>>
       ELSE /\ current_frame' = d_raw
            /\ display_frame' = d_proc
  /\ d_raw' = NoFrame
  /\ d_proc' = NoFrame
  /\ dpc' = "idle"
  /\ UNCHANGED <<life, dev, buf, pc, tpc, tloc, env, peer, ui_pending, auto_reconnect, ui, res, dev_seq, hist>>

(* ------------------------------ scenarios ------------------------------ *)
\* 534-554: an exception raised while the loop_error handler runs (its logging
\* call, 535-538) leaves the while loop: the outer handler logs "Critical video
\* loop error", finally calls _safe_close_camera() and the thread ends.
\* is_running and should_be_running are left as they are.
loop_crash(t) ==
  /\ tpc[t] = "err"
  /\ _safe_close_camera
  /\ tpc' = SetT(tpc, t, "dead")
  /\ consecutive_failures' = SetT(consecutive_failures, t, 0)
  /\ stable_frames' = SetT(stable_frames, t, 0)
  /\ t_frame' = SetT(t_frame, t, NoFrame)
  /\ t_probe' = SetT(t_probe, t, 0)
  /\ ticks' = SetT(ticks, t, 0)
  /\ UNCHANGED <<life, buf, disp, pc, backoff, env, peer, ui_pending, auto_reconnect, ui, res, dev_seq, hist>>

(* ----------------- a second view of the same process -------------------- *)
\* start_continuous_feed (284-313) of the second view
peer_start_continuous_feed ==
  /\ ~peer.is_running
  /\ peer.video_thread # "alive"
  /\ peer' = [peer EXCEPT !.stop_event = FALSE, !.is_running = TRUE,
                          !.should_be_running = TRUE, !.video_thread = "alive"]
  /\ UNCHANGED <<life, dev, buf, disp, pc, tpc, tloc, env, ui_pending, auto_reconnect, ui, res, dev_seq, hist>>

\* _safe_video_loop (409-554) of the second view: open the device, publish a
\* frame, or see the stop signal, release the handle and end.
peer_safe_video_loop ==
  /\ peer.video_thread = "alive"
  /\ \/ /\ ~peer.stop_event /\ peer.is_running /\ ~peer.cap
        /\ peer' = [peer EXCEPT !.cap = TRUE]
     \/ /\ ~peer.stop_event /\ peer.is_running /\ peer.cap
        /\ peer.published = 0
        /\ peer' = [peer EXCEPT !.published = 1]
     \/ /\ peer.stop_event \/ ~peer.is_running
        /\ peer' = [peer EXCEPT !.cap = FALSE, !.video_thread = "dead"]
  /\ UNCHANGED <<life, dev, buf, disp, pc, tpc, tloc, env, ui_pending, auto_reconnect, ui, res, dev_seq, hist>>

\* stop_continuous_feed (324-363) of the second view
peer_stop_continuous_feed ==
  /\ peer.is_running
  /\ peer' = [peer EXCEPT !.should_be_running = FALSE, !.is_running = FALSE,
                          !.stop_event = TRUE]
  /\ UNCHANGED <<life, dev, buf, disp, pc, tpc, tloc, env, ui_pending, auto_reconnect, ui, res, dev_seq, hist>>

(* ------------------------- capture and save ----------------------------- *)
\* A request of the user interface is one call of capture_current_frame or
\* save_image; both run to completion on the caller's thread.
UiRequest(op) ==
  /\ ui_calls < MaxUiCalls
  /\ ui_calls' = ui_calls + 1
  /\ ui_last' = op

\* capture_current_frame (980-1009): with self.frame_lock: if
\* self.current_frame is not None: captured_image = current_frame.copy();
\* return True; else return False
capture_current_frame ==
  /\ UiRequest("capture")
  /\ IF current_frame # NoFrame
       THEN /\ captured_image' = current_frame
            /\ status' = "Frame captured - ready to save"
            /\ ui_result' = "ok"
       ELSE /\ UNCHANGED captured_image
            /\ status' = "No frame available"
            /\ ui_result' = "failed"
  /\ UNCHANGED <<life, dev, buf, disp, pc, tpc, tloc, env, peer, ui_pending, auto_reconnect, perf, zoom, files,
                 ext_file, save_function, saved_name, fn_called, res, dev_seq,
                 hist>>

\* f"{counter:03d}" (1064): the decimal digits of counter, zero-padded to three
RECURSIVE Digits(_)
Digits(n) == IF n < 10 THEN <<n>> ELSE Append(Digits(n \div 10), n % 10)

RECURSIVE ZeroPadded(_, _)
ZeroPadded(d, width) == IF Len(d) >= width THEN d ELSE ZeroPadded(<<0>> \o d, width)

Suffixed(counter) == ZeroPadded(Digits(counter), 3)

\* os.path.exists(filename)
Exists(name) == name \in DOMAIN files

\* 1058-1065: counter = 1; while os.path.exists(filename):
\*   filename = f"{base_name}_{counter:03d}.{extension}"; counter += 1
RECURSIVE NextFree(_)
NextFree(counter) ==
  IF Exists(Suffixed(counter)) THEN NextFree(counter + 1) ELSE Suffixed(counter)

UniqueFilename_overwriting == Base
UniqueFilename == IF Exists(Base) THEN NextFree(1) ELSE Base

\* cv2.imwrite(filename, ...) creating or replacing the file
Written(name, size) ==
  [n \in DOMAIN files \cup {name} |-> IF n = name THEN size ELSE files[n]]

\* What the configured save function may do with the image: write a non-empty
\* file, an empty one or none and return a true value; return a false value;
\* raise. There is none to call when save_function is not set.
FunctionOutcomes ==
  IF save_function THEN {"saved", "empty", "nothing", "false", "raises"}
  ELSE {"unset"}
Truthy == {"saved", "empty", "nothing"}

\* What the fallback write may do: imwrite returns True and the file has
\* content; imwrite returns True and the file is empty; imwrite returns False;
\* makedirs or imwrite raise PermissionError, OSError, another exception.
WriteOutcomes == {"written", "empty", "refused", "denied", "oserror", "error"}

\* 1021: if self.captured_image is None
NothingToSave_unchecked == FALSE
NothingToSave == captured_image = NoFrame

\* 1022-1023, 1084-1105: self._update_status_safe(...); return False
SaveFailed_dropping(text) ==
  /\ captured_image' = NoFrame
  /\ status' = text
  /\ ui_result' = "failed"
SaveFailed(text) ==
  /\ UNCHANGED captured_image
  /\ status' = text
  /\ ui_result' = "failed"

\* 1030-1034, 1078-1081: status; self.captured_image = None; return True
SaveSucceeded(text) ==
  /\ captured_image' = NoFrame
  /\ status' = text
  /\ ui_result' = "ok"

\* 1046-1105: the fallback save
FallbackSave(wo) ==
  LET filename == UniqueFilename IN
  CASE wo = "written" ->
         /\ files' = Written(filename, "full")
         /\ saved_name' = filename
         /\ SaveSucceeded("Image saved")
    [] wo = "empty" ->
         /\ files' = Written(filename, "empty")
         /\ saved_name' = filename
         /\ SaveFailed("Save failed - file empty")
    [] wo = "refused" ->
         /\ UNCHANGED files
         /\ saved_name' = NoName
         /\ SaveFailed("Save failed - write error")
    [] wo = "denied" ->
         /\ UNCHANGED files
         /\ saved_name' = NoName
         /\ SaveFailed("Save failed - permission denied")
    [] wo = "oserror" ->
         /\ UNCHANGED files
         /\ saved_name' = NoName
         /\ SaveFailed("Save failed - disk error")
    [] OTHER ->
         /\ UNCHANGED files
         /\ saved_name' = NoName
         /\ SaveFailed("Save failed")

\* save_image (1018-1111)
save_image ==
  /\ UiRequest("save")
  /\ IF NothingToSave
       THEN /\ SaveFailed("No image to save")
            /\ fn_called' = FALSE
            /\ saved_name' = NoName
            /\ UNCHANGED <<files, ext_file>>
       ELSE \E fo \in FunctionOutcomes :
              /\ fn_called' = save_function
              /\ ext_file' = IF fo = "saved" THEN "full"
                             ELSE IF fo = "empty" THEN "empty"
                             ELSE ext_file
              /\ IF fo \in Truthy
                   THEN /\ SaveSucceeded("Image saved successfully")
                        /\ saved_name' = NoName
                        /\ UNCHANGED files
                   ELSE \E wo \in WriteOutcomes : FallbackSave(wo)
  /\ UNCHANGED <<life, dev, buf, disp, pc, tpc, tloc, env, peer, ui_pending, auto_reconnect, perf, zoom,
                 save_function, res, dev_seq, hist>>

(* ----------------------------- zoom and pan ----------------------------- *)
\* on_mouse_wheel (1194-1202): one zoom step in or out, within
\* [min_zoom, max_zoom]
on_mouse_wheel(up) ==
  /\ zoom_level' = IF up THEN Min(max_zoom, zoom_level + zoom_step)
                   ELSE Max(min_zoom, zoom_level - zoom_step)
  /\ zoom_level' # zoom_level
  /\ UNCHANGED <<life, dev, buf, disp, pc, tpc, tloc, env, peer, ui_pending, auto_reconnect, perf, shot, pan_x, pan_y,
                 is_panning, last_mouse, frame_size, crop, out_size, res, dev_seq,
                 hist>>

\* on_mouse_press (1204-1211)
on_mouse_press(at) ==
  /\ ~is_panning
  /\ is_panning' = TRUE
  /\ last_mouse' = at
  /\ UNCHANGED <<life, dev, buf, disp, pc, tpc, tloc, env, peer, ui_pending, auto_reconnect, perf, shot, zoom_level,
                 pan_x, pan_y, frame_size, crop, out_size, res, dev_seq, hist>>

\* on_mouse_drag (1213-1224): pan_x += dx; pan_y += dy, with nothing to bound
\* the sum
on_mouse_drag(at) ==
  /\ is_panning
  /\ at # last_mouse
  /\ LET dx == at[1] - last_mouse[1]
         dy == at[2] - last_mouse[2]
     IN /\ pan_x + dx \in -MaxPan..MaxPan
        /\ pan_y + dy \in -MaxPan..MaxPan
        /\ pan_x' = pan_x + dx
        /\ pan_y' = pan_y + dy
  /\ last_mouse' = at
  /\ UNCHANGED <<life, dev, buf, disp, pc, tpc, tloc, env, peer, ui_pending, auto_reconnect, perf, shot, zoom_level,
                 is_panning, frame_size, crop, out_size, res, dev_seq, hist>>

\* on_mouse_release (1226-1231)
on_mouse_release ==
  /\ is_panning
  /\ is_panning' = FALSE
  /\ UNCHANGED <<life, dev, buf, disp, pc, tpc, tloc, env, peer, ui_pending, auto_reconnect, perf, shot, zoom_level,
                 pan_x, pan_y, last_mouse, frame_size, crop, out_size, res,
                 dev_seq, hist>>

\* 1248-1258: the crop rectangle <<x1, y1, x2, y2>>; int(w / zoom_level) with
\* the zoom level an exact multiple of 0.2
CropRect(level, px, py, w, h) ==
  LET zoom_w == (w * 5) \div level
      zoom_h == (h * 5) \div level
      center_x == (w \div 2) + px
      center_y == (h \div 2) + py
      x1 == Max(0, center_x - (zoom_w \div 2))
      y1 == Max(0, center_y - (zoom_h \div 2))
      x2 == Min(w, x1 + zoom_w)
      y2 == Min(h, y1 + zoom_h)
  IN <<x1, y1, x2, y2>>

\* apply_zoom_and_pan (1242-1264), called by _process_frame_optimized
\* (766-767) when zoom or pan is set: at zoom_level <= 1.0 the frame itself;
\* otherwise the crop resized to (w, h), or the frame itself when the crop has
\* no pixels and cv2.resize raises (1263-1264).
apply_zoom_and_pan ==
  /\ zoom_level > min_zoom \/ pan_x # 0 \/ pan_y # 0
  /\ crop' = IF zoom_level <= min_zoom THEN NoCrop
             ELSE CropRect(zoom_level, pan_x, pan_y, frame_size[1], frame_size[2])
  /\ out_size' = frame_size
  /\ <<crop', out_size'>> # <<crop, out_size>>
  /\ UNCHANGED <<life, dev, buf, disp, pc, tpc, tloc, env, peer, ui_pending, auto_reconnect, perf, shot, zoom_level,
                 pan_x, pan_y, is_panning, last_mouse, frame_size, res, dev_seq,
                 hist>>

\* The session as __init__ (48-146) leaves it, for one source and one host:
\* the source kind and the HD switch of the settings, what a read of the device
\* may return and how many distinct frames it delivers, the CPU loads the host
\* may show, and what the callers do: __init__ starts the watchdog (143), then
\* with auto_start the constructing thread calls start_continuous_feed (146);
\* a source configured before the feed is started (set_rtsp_config, 159-162,
\* then start_camera) begins in the same way.
Session(kind, hd, outcomes, frames, loads, limit, requests, ub, wb, auto_start) ==
  /\ InitSession
  /\ camera_type = kind
  /\ hd_quality_enabled = hd
  /\ dev_read = outcomes
  /\ dev_frames = frames
  /\ cpu_env = loads
  /\ tick_limit = limit
  /\ user_requests = requests
  /\ budget = [c \in Callers |-> IF c = "wd" THEN wb ELSE ub]
  /\ pc = [c \in Callers |-> IF c = "wd" THEN "wd_top"
                             ELSE IF auto_start THEN "st_chk" ELSE "idle"]

\* The source has its URL configured and its device opens.
Reachable ==
  /\ url_configured = TRUE
  /\ dev_open = {TRUE}

\* ... with no save function configured (139) and an empty captured_images/.
Scenario(kind, hd, outcomes, frames, loads, limit, requests, ub, wb, auto_start) ==
  /\ Session(kind, hd, outcomes, frames, loads, limit, requests, ub, wb, auto_start)
  /\ Reachable
  /\ save_function = FALSE
  /\ files = NoFiles

StartStep(c) ==
  \/ start_check(c) \/ start_clear(c) \/ start_flags(c) \/ start_thread(c)
  \/ start_release(c)

StopStep(c) ==
  \/ stop_check(c) \/ stop_flags(c) \/ stop_set(c) \/ stop_join(c)
  \/ stop_close(c) \/ stop_release(c)

RestartStep(c) ==
  \/ restart_check(c) \/ restart_flags(c) \/ restart_set(c) \/ restart_join(c)
  \/ restart_close(c) \/ restart_release(c) \/ restart_start(c)

WatchdogStep == watchdog_loop \/ watchdog_poll \/ watchdog_eval \/ watchdog_wait

\* ... and the time that passes since the last successful frame.
StaleStep == window_elapses

\* The Capture Loop of a source that opens and delivers.
ConnectStep(t) ==
  \/ loop_top(t) \/ loop_skip_check(t) \/ loop_connection_check(t)
  \/ loop_init_check(t) \/ init_close(t) \/ init_open(t) \/ init_assign(t)
  \/ init_test(t) \/ init_succeeded(t) \/ loop_pace(t) \/ loop_read(t)

PublishStep(t) ==
  \/ loop_gate(t) \/ publish_lock(t) \/ publish_raw(t) \/ publish_processed(t)
  \/ publish_timestamp(t) \/ publish_signal(t) \/ loop_post(t)

DisplayStep ==
  \/ display_check \/ display_lock \/ display_take_raw \/ display_take_processed
  \/ display_store

(* ---- lifecycle: any request of the user interface, and the watchdog ---- *)
Init ==
  \E auto_start \in BOOLEAN :
    Scenario("USB", TRUE, {"high"}, 1, {0}, MaxTicks, UserRequests,
             MaxUserRequests, MaxWatchdogPolls, auto_start)

Next ==
  \/ \E r \in UserRequests : user_request(r)
  \/ \E c \in Callers : StartStep(c) \/ StopStep(c) \/ RestartStep(c)
                        \/ toggle_continuous_feed(c)
  \/ WatchdogStep
  \/ StaleStep
  \/ \E t \in Threads : ConnectStep(t) \/ PublishStep(t) \/ init_failed(t)
                        \/ loop_error(t) \/ loop_exit(t)

Spec == Init /\ [][Next]_vars

(* ---- restarts: restart_feed from the user interface and the watchdog ---- *)
InitRestart ==
  Scenario("USB", TRUE, {"high"}, 1, {0}, MaxTicks, {"rs_chk"},
           MaxUserRequests, MaxWatchdogPolls, TRUE)

NextRestart ==
  \/ user_request("rs_chk")
  \/ \E c \in Callers : StartStep(c) \/ RestartStep(c)
  \/ WatchdogStep
  \/ StaleStep
  \/ \E t \in Threads : ConnectStep(t) \/ PublishStep(t) \/ init_failed(t)
                        \/ loop_error(t) \/ loop_exit(t)

SpecRestart == InitRestart /\ [][NextRestart]_vars

(* ---- starts on an idle session, on a host too busy to capture ---------- *)
InitStart ==
  Scenario("USB", TRUE, {"high"}, 1, {100}, 0, {"st_chk"},
           MaxStartCalls, MaxWatchdogPolls, FALSE)

NextStart ==
  \/ user_request("st_chk")
  \/ \E c \in Callers : StartStep(c)
  \/ WatchdogStep
  \/ \E t \in Threads : loop_top(t) \/ loop_skip_check(t) \/ loop_skip_wait(t)

SpecStart == InitStart /\ [][NextStart]_vars

(* ---- every request, on a host too busy to capture ---------------------- *)
InitBusy ==
  \E auto_start \in BOOLEAN :
    Scenario("USB", TRUE, {"high"}, 1, {100}, 0, UserRequests,
             MaxUserRequests, MaxWatchdogPolls, auto_start)

NextBusy ==
  \/ \E r \in UserRequests : user_request(r)
  \/ \E c \in Callers : StartStep(c) \/ StopStep(c) \/ RestartStep(c)
                        \/ toggle_continuous_feed(c)
  \/ WatchdogStep
  \/ \E t \in Threads : loop_top(t) \/ loop_skip_check(t) \/ loop_skip_wait(t)
                        \/ loop_exit(t)

SpecBusy == InitBusy /\ [][NextBusy]_vars

(* ---- stops, restarts and a failing start, the calls scheduled fairly ----- *)
InitFlag ==
  Scenario("USB", TRUE, {"high"}, 1, {0}, 0, {"sp_chk", "rs_chk"},
           MaxUserRequests, MaxWatchdogPolls, TRUE)

CallStep(c) == StartStep(c) \/ start_except(c) \/ StopStep(c) \/ RestartStep(c)

NextFlag ==
  \/ \E r \in {"sp_chk", "rs_chk"} : user_request(r)
  \/ \E c \in Callers : CallStep(c)
  \/ WatchdogStep
  \/ \E t \in Threads : loop_top(t) \/ loop_skip_check(t) \/ loop_exit(t)

\* A call in progress runs on: its joins are bounded and its sleeps end.  The
\* Capture Loop threads get as far as their first connection attempt.
SpecFlag ==
  /\ InitFlag
  /\ [][NextFlag]_vars
  /\ \A c \in Callers : WF_vars(CallStep(c))

(* ---- stop then start, under fair scheduling of the threads ------------- *)
InitFair ==
  Scenario("USB", TRUE, {"high"}, 1, {100}, 0, {"sp_chk", "st_chk"},
           MaxFairRequests, 0, TRUE)

ThreadFairStep(t) ==
  loop_top(t) \/ loop_skip_check(t) \/ loop_skip_wait(t) \/ loop_exit(t)

CallFairStep(c) == StartStep(c) \/ StopStep(c)

NextFair ==
  \/ \E r \in {"sp_chk", "st_chk"} : user_request(r)
  \/ \E c \in Callers : CallFairStep(c)
  \/ \E t \in Threads : ThreadFairStep(t)

\* Every thread that can take a step eventually takes one, and so does a call
\* in progress; the user need not issue requests.
SpecFair ==
  /\ InitFair
  /\ [][NextFair]_vars
  /\ \A t \in Threads : WF_vars(ThreadFairStep(t))
  /\ \A c \in Callers : WF_vars(CallFairStep(c))

(* ---- streaming: one Capture Loop thread and the display consumer ------- *)
InitBuffer ==
  Scenario("USB", TRUE, {"high"}, MaxFrames, {0}, 0, {}, 0, 0, TRUE)

NextBuffer ==
  \/ StartStep("user")
  \/ \E t \in Threads : ConnectStep(t) \/ PublishStep(t)
  \/ DisplayStep

SpecBuffer == InitBuffer /\ [][NextBuffer]_vars

(* ---- HD-gated RTSP source that delivers low and high frames ------------ *)
InitGate ==
  Scenario("RTSP", TRUE, {"low", "high"}, MaxFrames + 1, {0}, 0, {}, 0, 0, TRUE)

NextGate ==
  \/ StartStep("user")
  \/ \E t \in Threads : ConnectStep(t) \/ PublishStep(t) \/ init_probe(t)
                        \/ init_failed(t) \/ loop_cooldown(t)

SpecGate == InitGate /\ [][NextGate]_vars

(* ---- USB source whose reads fail --------------------------------------- *)
InitFailures ==
  Scenario("USB", TRUE, {"high", "fail"}, 1, {0}, 0, {}, 0, 0, TRUE)

NextFailures ==
  \/ StartStep("user")
  \/ \E t \in Threads : ConnectStep(t) \/ PublishStep(t) \/ init_failed(t)
                        \/ loop_cooldown(t) \/ loop_fail_sleep(t) \/ loop_recover(t)

SpecFailures == InitFailures /\ [][NextFailures]_vars

(* ---- Resource Monitor: a host whose load varies ------------------------ *)
InitPerf ==
  Scenario("USB", TRUE, {"high"}, 1, {0, 60, 100}, 0, {}, 0, 0, TRUE)

NextPerf ==
  \/ StartStep("user")
  \/ \E t \in Threads : ConnectStep(t) \/ PublishStep(t) \/ loop_skip_wait(t)
                        \/ loop_housekeeping(t)

SpecPerf == InitPerf /\ [][NextPerf]_vars

(* ---- capture requests while the source delivers ----------------------- *)
InitCapture ==
  Scenario("USB", TRUE, {"high"}, MaxFrames, {0}, 0, {}, 0, 0, TRUE)

NextCapture ==
  \/ StartStep("user")
  \/ \E t \in Threads : ConnectStep(t) \/ PublishStep(t)
  \/ DisplayStep
  \/ capture_current_frame

SpecCapture == InitCapture /\ [][NextCapture]_vars

(* ---- capture and save requests, with files already in the directory ---- *)
\* The files save_image may find in captured_images/ under the name it builds:
\* none, or some left by earlier saves within the same second.
InitialFiles == {[n \in S |-> "full"] : S \in SUBSET {Base, Suffixed(1), Suffixed(2)}}

InitSave ==
  /\ Session("USB", TRUE, {"high"}, 1, {0}, MaxTicks, {}, 0, 0, TRUE)
  /\ Reachable
  /\ save_function \in BOOLEAN
  /\ files \in InitialFiles

NextSave ==
  \/ StartStep("user")
  \/ \E t \in Threads : ConnectStep(t) \/ PublishStep(t)
  \/ DisplayStep
  \/ capture_current_frame
  \/ save_image

SpecSave == InitSave /\ [][NextSave]_vars

(* ---- zoom and pan gestures on the canvas ------------------------------- *)
InitZoom ==
  Scenario("USB", TRUE, {"high"}, 1, {0}, MaxTicks, {}, 0, 0, TRUE)

NextZoom ==
  \/ \E up \in BOOLEAN : on_mouse_wheel(up)
  \/ \E at \in MousePoints : on_mouse_press(at) \/ on_mouse_drag(at)
  \/ on_mouse_release
  \/ apply_zoom_and_pan

SpecZoom == InitZoom /\ [][NextZoom]_vars

(* ---- HTTP source, whose reads raise, under the watchdog ----------------- *)
InitCrash ==
  Scenario("HTTP", TRUE, {"high"}, 1, {0}, 0, {}, 0, MaxWatchdogPolls, TRUE)

NextCrash ==
  \/ StartStep("user")
  \/ WatchdogStep
  \/ \E t \in Threads :
       \/ loop_top(t) \/ loop_skip_check(t) \/ loop_connection_check(t)
       \/ loop_init_check(t) \/ init_close(t) \/ init_open(t)
       \/ init_succeeded(t) \/ loop_pace(t) \/ loop_read(t)
       \/ loop_error(t) \/ loop_crash(t)

SpecCrash == InitCrash /\ [][NextCrash]_vars

(* ---- HTTP source with its URL set, under fair scheduling ----------------- *)
InitHttp ==
  Scenario("HTTP", TRUE, {"high"}, 1, {0}, 0, {}, 0, MaxWatchdogPolls, TRUE)

HttpLoopStep(t) ==
  \/ loop_top(t) \/ loop_skip_check(t)
  \/ loop_connection_check(t) \/ loop_init_check(t) \/ init_close(t)
  \/ init_open(t) \/ init_succeeded(t) \/ loop_pace(t) \/ loop_read(t)
  \/ loop_error(t)

NextHttp ==
  \/ StartStep("user")
  \/ WatchdogStep
  \/ \E t \in Threads : HttpLoopStep(t)

\* The start in progress completes, a Capture Loop thread that can take a
\* step eventually takes one, and a thread that keeps waiting for its pacing
\* interval eventually finds it elapsed; the watchdog may poll or not.
SpecHttp ==
  /\ InitHttp
  /\ [][NextHttp]_vars
  /\ WF_vars(StartStep("user"))
  /\ \A t \in Threads : WF_vars(HttpLoopStep(t))
  /\ \A t \in Threads : SF_vars(loop_pace(t) /\ tpc'[t] = "read")

(* ---- the feed button pressed twice, under the watchdog ------------------ *)
InitStale ==
  Scenario("USB", TRUE, {"high"}, 1, {0}, MaxTicks, {"tg"}, MaxToggles,
           MaxWatchdogPolls, TRUE)

NextStale ==
  \/ user_request("tg")
  \/ \E c \in Callers : StartStep(c) \/ StopStep(c) \/ toggle_continuous_feed(c)
  \/ RestartStep("wd")
  \/ WatchdogStep
  \/ StaleStep
  \/ \E t \in Threads : ConnectStep(t) \/ PublishStep(t) \/ init_failed(t)
                        \/ loop_error(t) \/ loop_exit(t)

SpecStale == InitStale /\ [][NextStale]_vars

(* ---- one user stop of a streaming session, under the watchdog ------------ *)
InitStopped ==
  Scenario("USB", TRUE, {"high"}, 1, {0}, MaxTicks, {"sp_chk"}, MaxUserRequests,
           MaxWatchdogPolls, TRUE)

NextStopped ==
  \/ user_request("sp_chk")
  \/ StartStep("user") \/ StopStep("user")
  \/ StartStep("wd") \/ RestartStep("wd")
  \/ WatchdogStep
  \/ StaleStep
  \/ \E t \in Threads : ConnectStep(t) \/ PublishStep(t) \/ init_failed(t)
                        \/ loop_error(t) \/ loop_exit(t)

SpecStopped == InitStopped /\ [][NextStopped]_vars

(* ---- shutdown of a streaming session, under the watchdog ---------------- *)
InitDown ==
  Scenario("USB", TRUE, {"high"}, 1, {0}, MaxTicks, {"sd"}, MaxUserRequests,
           MaxWatchdogPolls, TRUE)

NextDown ==
  \/ user_request("sd")
  \/ StartStep("user") \/ ShutdownStep("user") \/ StopStep("user")
  \/ StartStep("wd") \/ RestartStep("wd")
  \/ WatchdogStep
  \/ StaleStep
  \/ \E t \in Threads : ConnectStep(t) \/ PublishStep(t) \/ init_failed(t)
                        \/ loop_error(t) \/ loop_exit(t)

SpecDown == InitDown /\ [][NextDown]_vars

(* ---- a session left to the watchdog, polled more than once -------------- *)
InitRestale ==
  Scenario("USB", TRUE, {"high"}, 1, {0}, MaxTicks, {}, 0, MaxStalePolls, TRUE)

NextRestale ==
  \/ StartStep("user")
  \/ StartStep("wd") \/ RestartStep("wd")
  \/ WatchdogStep
  \/ StaleStep \/ restart_window_elapses
  \/ \E t \in Threads : ConnectStep(t) \/ PublishStep(t) \/ loop_exit(t)

SpecRestale == InitRestale /\ [][NextRestale]_vars

(* ---- the feed button pressed twice, the display ticking ----------------- *)
InitTicks ==
  Scenario("USB", TRUE, {"high"}, 1, {0}, MaxTicks, {"tg"}, MaxToggles, 0, TRUE)

NextTicks ==
  \/ user_request("tg")
  \/ toggle_continuous_feed("user") \/ StartStep("user") \/ StopStep("user")
  \/ schedule_ui_update
  \/ display_lock \/ display_take_raw \/ display_take_processed \/ display_store
  \/ \E t \in Threads : ConnectStep(t) \/ PublishStep(t) \/ loop_exit(t)

SpecTicks == InitTicks /\ [][NextTicks]_vars

(* ---- a network or poll source whose URL was never configured ----------- *)
InitNoUrl ==
  \E kind \in {"RTSP", "HTTP"} :
    /\ Session(kind, TRUE, {"high", "low"}, 1, {0}, 0, {}, 0, 0, TRUE)
    /\ url_configured = FALSE
    /\ dev_open = {TRUE, FALSE}
    /\ save_function = FALSE
    /\ files = NoFiles

NextNoUrl ==
  \/ StartStep("user")
  \/ \E t \in Threads : ConnectStep(t) \/ PublishStep(t) \/ init_failed(t)
                        \/ loop_cooldown(t)

SpecNoUrl == InitNoUrl /\ [][NextNoUrl]_vars

(* ---- a network source stopped while it connects ------------------------- *)
InitShutdown ==
  Scenario("RTSP", TRUE, {"low", "high"}, 1, {0}, 0, {"sp_chk"},
           MaxUserRequests, 0, TRUE)

NextShutdown ==
  \/ user_request("sp_chk")
  \/ StartStep("user") \/ StopStep("user")
  \/ \E t \in Threads : ConnectStep(t) \/ PublishStep(t) \/ init_probe(t)
                        \/ init_failed(t) \/ loop_exit(t)

SpecShutdown == InitShutdown /\ [][NextShutdown]_vars

(* ---- a local device that delivers frames of any resolution -------------- *)
InitUngated ==
  \E hd \in BOOLEAN :
    Scenario("USB", hd, {"low", "high"}, 1, {0}, 0, {}, 0, 0, TRUE)

NextUngated ==
  \/ StartStep("user")
  \/ \E t \in Threads : ConnectStep(t) \/ PublishStep(t) \/ init_failed(t)
                        \/ loop_cooldown(t)

SpecUngated == InitUngated /\ [][NextUngated]_vars

(* ---- two views in one process, the first one failing ------------------- *)
InitPeer ==
  /\ Session("USB", TRUE, {"high", "fail"}, 1, {0}, 0, {"sp_chk"},
             MaxUserRequests, 0, TRUE)
  /\ url_configured = TRUE
  /\ dev_open = {TRUE, FALSE}
  /\ save_function = FALSE
  /\ files = NoFiles

OwnStep ==
  \/ user_request("sp_chk")
  \/ StartStep("user") \/ StopStep("user")
  \/ \E t \in Threads : ConnectStep(t) \/ PublishStep(t) \/ init_failed(t)
                        \/ loop_fail_sleep(t) \/ loop_error(t) \/ loop_exit(t)

PeerStep ==
  peer_start_continuous_feed \/ peer_safe_video_loop \/ peer_stop_continuous_feed

NextPeer == OwnStep \/ PeerStep

SpecPeer == InitPeer /\ [][NextPeer]_vars

(* ------------------------------- claims --------------------------------- *)
\* C1: at every instant at most one Capture Loop thread is alive, whatever the
\* interleaving of start, stop, restart, toggle and watchdog requests, also when
\* a bounded join expires with the old thread alive and the next start clears
\* the stop signal.
C1_OneCaptureThread == Cardinality(AliveThreads) <= 1

\* C2: two concurrent restart requests make one stop-then-start cycle (the two
\* callers are never both inside the cycle) and never leave two device handles
\* open at the same instant.
RestartCycle == {"rs_if", "rs_set", "rs_join", "rs_close", "rs_rel"}

C2_OneCycleOneHandle ==
  /\ ~(pc["user"] \in RestartCycle /\ pc["wd"] \in RestartCycle)
  /\ Cardinality(open_handles) <= 1

\* C3: once the stop signal is set, no step writes the frame buffer or raises
\* the new-data signal, even when a read was in flight as the signal was set.
C3_SilentAfterStop ==
  [][stop_event => /\ frame_buffer' = frame_buffer
                   /\ (frame_ready_event' => frame_ready_event)]_vars

\* C4: whenever the stop signal is set, every Capture Loop thread alive at that
\* moment eventually terminates.
C4_StopTerminates ==
  \A t \in Threads : (stop_event /\ Alive(t)) ~> ~Alive(t)

\* C5: N >= 1 publishes with no take in between leave the N-th in the slot, and
\* the next take returns its raw and processed frames; before any publish a
\* take yields no frame.
C5_LatestWins ==
  /\ frame_buffer.timestamp = 0 =>
       /\ ~frame_ready_event
       /\ dpc = "idle"
       /\ current_frame = NoFrame /\ display_frame = NoFrame
  /\ \A t \in Threads : tpc[t] = "post" => frame_buffer.timestamp = dev_seq
  /\ dpc = "proc" =>
       /\ d_raw = <<"raw", frame_buffer.timestamp>>
       /\ frame_buffer.processed_frame = <<"processed", frame_buffer.timestamp>>

\* Three publishes, then the first take, which has read the third raw frame.
C5_Witness ==
  /\ dpc = "proc"
  /\ current_frame = NoFrame
  /\ d_raw = <<"raw", 3>>

\* C6: a take observes the raw and the processed frame of one publish, and the
\* slot outside a publish holds raw frame, processed frame and timestamp of one
\* publish.
C6_TakeIsOnePublish ==
  /\ dpc = "store" =>
       /\ Quality(d_raw) = "raw" /\ Quality(d_proc) = "processed"
       /\ FrameId(d_raw) = FrameId(d_proc)
  /\ FrameId(current_frame) = FrameId(display_frame)
  /\ buffer_lock # Capture =>
       /\ FrameId(frame_buffer.raw_frame) = frame_buffer.timestamp
       /\ FrameId(frame_buffer.processed_frame) = frame_buffer.timestamp

\* A take of the second publish is complete while the third is half written.
C6_Witness ==
  /\ dpc = "store"
  /\ FrameId(d_raw) = 2
  /\ \E t \in Threads : tpc[t] = "p_proc"

\* C7: with the HD gate on an RTSP source nothing is published until three
\* consecutive reads qualify; a read below the minimum resets the count to 0;
\* once three is reached every further qualifying frame is published; of the
\* reads low, high, high, high the fourth is the first frame published.
RECURSIVE TrailingHighs(_)
TrailingHighs(h) ==
  IF h = <<>> \/ h[Len(h)] # "high" THEN 0
  ELSE 1 + TrailingHighs(SubSeq(h, 1, Len(h) - 1))

Publishing == {"p_lock", "p_raw", "p_proc", "p_ts", "p_set"}

C7_GateOfThree ==
  \A t \in Threads :
    /\ tpc[t] \in Publishing => TrailingHighs(reads) >= 3
    /\ (Alive(t) /\ tpc[t] # "gate") =>
         stable_frames[t] = Min(TrailingHighs(reads), 3)
    /\ (Alive(t) /\ tpc[t] \notin Publishing \cup {"gate"}
          /\ dev_seq > 0 /\ dev_seq < dev_frames) =>
         (frame_buffer.timestamp = dev_seq <=> TrailingHighs(reads) >= 3)
    /\ (reads # <<>> /\ reads[1] = "low" /\ dev_seq <= 3) => frame_buffer = EmptySlot

C7_Witness ==
  /\ reads = <<"low", "high", "high", "high">>
  /\ dev_seq = 4
  /\ frame_buffer.timestamp = 4
  /\ \E t \in Threads : tpc[t] = "post"

\* C8: with max_consecutive_failures = 15 the handle is released and the
\* cooldown entered exactly when the 15th consecutive read failure is counted:
\* not at failures 1..14, and not as late as the 16th.
C8_ReleaseOnFifteenth ==
  \A t \in Threads :
    /\ tpc[t] = "failsleep" => consecutive_failures[t] < max_consecutive_failures
    /\ tpc[t] = "recover" => consecutive_failures[t] = max_consecutive_failures

\* C9: start_continuous_feed called twice in quick succession on an idle
\* session, one call after the other or from two threads, creates exactly one
\* Capture Loop thread; the later call returns without creating one.
Started == {t \in Threads : tpc[t] # "none"}
InStart == {"st_chk", "st_clear", "st_flags", "st_thread", "st_rel"}

C9_OneThreadPerIdleStart ==
  /\ Cardinality(Started) <= 1
  /\ ((\A c \in Callers : pc[c] \notin InStart)
        /\ (budget["user"] < MaxStartCalls \/ pc["wd"] = "wd_wait"))
       => Cardinality(Started) = 1

\* The calls of the user interface and the call of the watchdog have returned;
\* the last call of the user interface found the session running.
C9_Witness ==
  /\ pc["user"] = "idle" /\ budget["user"] = 0
  /\ pc["wd"] = "wd_wait"
  /\ refused["user"] = "running"
  /\ Cardinality(Started) = 1

\* C10: a start, stop or restart request that finds restart_in_progress set
\* returns and leaves is_running, should_be_running, the stop signal, the
\* device handle, the thread and the flag as they were.
FirstCheck == {"st_chk", "sp_chk", "rs_chk"}

C10_NoOpWhileInProgress ==
  [][\A c \in Callers :
       (pc[c] \in FirstCheck /\ restart_in_progress /\ pc'[c] # pc[c]) =>
         /\ pc'[c] = Return(c)
         /\ UNCHANGED <<is_running, should_be_running, stop_event, cap,
                        open_handles, video_thread, tpc, restart_in_progress>>]_vars

\* A stop request of the user interface has been turned away by the flag.
C10_Witness ==
  /\ refused["user"] = "busy"
  /\ pc["user"] = "idle"
  /\ restart_in_progress

\* C11: the device handle is released and set to None only by the Capture Loop
\* thread: no step of a caller of stop or restart (user interface, watchdog)
\* changes cap or the open handles while a Capture Loop thread is alive.
C11_HandleOwnedByCaptureLoop ==
  [][\A c \in Callers :
       (pc'[c] # pc[c] /\ AliveThreads # {}) =>
         UNCHANGED <<cap, open_handles>>]_vars

\* C12: every adjustment leaves min_fps <= target_fps <= max_fps, and from the
\* initial target of 25 a run of n adjustments at 100% CPU leaves the target at
\* max(15, 25 - n): at 15 after ten of them and at 15 after any further one.
C12_TargetFpsBounded ==
  /\ 2 * min_fps <= target_fps /\ target_fps <= 2 * max_fps
  /\ hot_run >= 0 =>
       target_fps = 2 * Max(min_fps, initial_target_fps - hot_run)
  /\ hot_run >= 10 => target_fps = 2 * min_fps

C12_Witness == hot_run > 10 /\ target_fps = 2 * min_fps

\* C13: a capture request that finds a frame stores in captured_image a copy of
\* the raw frame of the most recent publish held in the frame buffer: never a
\* processed frame, never the raw frame of an earlier publish. Stated for
\* requests made while no publish and no display update is under way.
C13_CaptureTakesLatestRaw ==
  [][(ui_calls' # ui_calls /\ ui_last' = "capture" /\ ui_result' = "ok"
        /\ buffer_lock = Free /\ dpc = "idle") =>
       captured_image' = frame_buffer.raw_frame]_vars

SaveRequest == ui_calls' # ui_calls /\ ui_last' = "save"

\* C14: whenever save_image fails, for whatever reason (the save function
\* reports failure or raises and the default write fails, the written file is
\* empty, permission error, OS error, any other exception), captured_image is
\* left as it was, so that a later save_image retries with the same frame.
C14_FailedSaveKeepsCapture ==
  [][(SaveRequest /\ ui_result' = "failed") => captured_image' = captured_image]_vars

C14_Witness ==
  /\ ui_last = "save" /\ ui_result = "failed" /\ fn_called
  /\ status = "Save failed - file empty"
  /\ captured_image # NoFrame

\* C15: save_image clears captured_image and reports success only after the
\* file it wrote has been verified to exist and to be non-empty, on every
\* success path, the one through the configured save function included.
WrittenFileVerified ==
  IF saved_name # NoName
    THEN saved_name \in DOMAIN files /\ files[saved_name] = "full"
    ELSE fn_called /\ ext_file = "full"

C15_SuccessOnlyWhenVerified ==
  [][(SaveRequest /\ (ui_result' = "ok" \/ captured_image' # captured_image)) =>
       WrittenFileVerified']_vars

\* C16: save_image called with no pending capture reports "No image to save",
\* returns failure, writes no file, does not call the save function and leaves
\* the session state as it was.
C16_NothingToSave ==
  [][(SaveRequest /\ captured_image = NoFrame) =>
       /\ ui_result' = "failed"
       /\ status' = "No image to save"
       /\ ~fn_called'
       /\ UNCHANGED <<captured_image, files, ext_file, save_function, life, dev,
                      buf, disp, perf, res>>]_vars

C16_Witness ==
  /\ ui_last = "save" /\ status = "No image to save" /\ save_function
  /\ current_frame # NoFrame

\* C17: the default save path is the base name when it is free; otherwise it is
\* the base name with the zero-padded 3-digit suffix n, for the smallest n >= 1
\* whose name is free; a file that exists is never written over, so repeated
\* saves colliding on one base take _001, then _002, and so on.
SuffixValue(name) == 100 * name[1] + 10 * name[2] + name[3]

IsSmallestFree(name, dir) ==
  IF Base \notin dir THEN name = Base
  ELSE /\ Len(name) = 3
       /\ \A i \in 1..3 : name[i] \in 0..9
       /\ SuffixValue(name) >= 1
       /\ name \notin dir
       /\ \A m \in 1..(SuffixValue(name) - 1) :
            \E other \in dir : Len(other) = 3 /\ SuffixValue(other) = m

C17_UniqueSavePath ==
  [][(SaveRequest /\ saved_name' # NoName) =>
       /\ saved_name' \notin DOMAIN files
       /\ IsSmallestFree(saved_name', DOMAIN files)
       /\ DOMAIN files' = DOMAIN files \cup {saved_name'}
       /\ \A n \in DOMAIN files : files'[n] = files[n]]_vars

C17_Witness ==
  /\ ui_last = "save" /\ ui_result = "ok"
  /\ saved_name = <<0, 0, 3>>
  /\ DOMAIN files = {Base, <<0, 0, 1>>, <<0, 0, 2>>, <<0, 0, 3>>}

\* C18: for every zoom level above 1.0 within [min_zoom, max_zoom] and every
\* pan offset, apply_zoom_and_pan computes a crop rectangle with
\* 0 <= x1 < x2 <= w and 0 <= y1 < y2 <= h and returns an image of the size
\* w x h of its input; at zoom 2.0 and pan (50, -20) on 640 x 480 the crop is
\* inside the frame and the output is 640 x 480.
C18_CropInsideFrame ==
  crop # NoCrop =>
    /\ 0 <= crop[1] /\ crop[1] < crop[3] /\ crop[3] <= frame_size[1]
    /\ 0 <= crop[2] /\ crop[2] < crop[4] /\ crop[4] <= frame_size[2]
    /\ out_size = frame_size

WatchdogDecides == pc["wd"] = "wd_eval" /\ pc'["wd"] # "wd_eval"

\* C19: trigger (a): when the watchdog evaluates a poll with should_be_running
\* true, no Capture Loop thread alive and no restart in progress, it issues a
\* start, whatever the value of is_running left when the thread ended.
C19_StartWhenNoThread ==
  [][(WatchdogDecides /\ should_be_running /\ AliveThreads = {}
        /\ ~restart_in_progress) =>
       pc'["wd"] = "st_chk"]_vars

\* C20: trigger (b): when the watchdog evaluates a poll with a Capture Loop
\* thread alive, no restart in progress and a last-success timestamp older than
\* the stale window, it issues restart_feed; it issues no restart_feed when the
\* timestamp is within the window.
C20_RestartWhenStale ==
  [][WatchdogDecides =>
       /\ (AliveThreads # {} /\ ~restart_in_progress /\ last_successful_frame
             /\ frame_stale) => pc'["wd"] = "rs_chk"
       /\ pc'["wd"] = "rs_chk" => (last_successful_frame /\ frame_stale)]_vars

\* C21: with the source kind RTSP or HTTP and no URL configured, initialization
\* fails as a configuration error: no device handle of any kind is opened, and
\* neither initialization_attempts nor consecutive_failures is incremented.
C21_MissingUrlOpensNothing ==
  ~url_configured =>
    /\ open_handles = {} /\ cap = None
    /\ initialization_attempts = 0
    /\ \A t \in Threads : consecutive_failures[t] = 0

\* C22: with two sessions, no operation or error of the first (failed open,
\* failed read, restart, stop, failed save, loop exception) changes the second
\* one's capture thread, lifecycle flags, stop signal, frame buffer or device
\* handle: a step that changes anything of the first session leaves the second
\* as it was.
OwnState == <<life, dev, buf, disp, pc, tpc, tloc, ui, res, dev_seq, hist>>

RestartSequence == {"rs_if", "rs_set", "rs_join", "rs_close", "rs_rel", "rs_start"}

C23_FlagHeldUntilStarted ==
  \A c \in Callers : pc[c] \in RestartSequence => restart_in_progress

\* C24: at the step on which a Capture Loop thread terminates, wherever the
\* stop signal caught it (quality probing included), the handle that thread
\* opened is released and cap is None.
C24_ExitReleasesHandle ==
  [][\A t \in Threads :
       (tpc[t] # "dead" /\ tpc'[t] = "dead") =>
         (t \notin open_handles' /\ cap' = None)]_vars

\* ... the thread was stopped while it probed, and released the handle itself
\* (the stop request has not yet reached its own _safe_close_camera).
C24_Witness ==
  /\ \E t \in Threads : tpc[t] = "dead" /\ t_probe[t] \in 1..(quality_test_attempts - 1)
  /\ stop_event /\ initialization_attempts = 1
  /\ pc["user"] \in {"sp_join", "sp_close"}
  /\ cap = None /\ open_handles = {}

\* C25: the wait that follows the n-th consecutive failed connection attempt
\* is min(n x 2 s, 10 s), for every n: it never exceeds the cap of 10 s (and,
\* being a capped product, does not decrease as n grows).
C25_BackoffIsCappedProduct ==
  \A t \in Threads :
    backoff[t] # 0 =>
      /\ backoff[t] = Min(consecutive_failures[t] * backoff_step, backoff_cap)
      /\ backoff[t] <= backoff_cap

Leaves(t, label) == tpc[t] = label /\ tpc'[t] # label

C27_ProbeBoundedAndReleasing ==
  [][\A t \in Threads :
       /\ t_probe'[t] <= quality_test_attempts
       /\ (Leaves(t, "i_probe") /\ ~stop_event) =>
            \/ /\ tpc'[t] = "i_test"
               /\ t_probe[t] < quality_test_attempts
               /\ cap' = cap /\ cap \in open_handles'
            \/ /\ tpc'[t] = "i_fail"
               /\ t_probe[t] = quality_test_attempts \/ cap = None
               /\ cap' = None /\ t \notin open_handles'
       /\ (Leaves(t, "i_fail") /\ ~stop_event) =>
            tpc'[t] = "top" /\ backoff'[t] > 0]_vars

\* ... ten probe frames were below the minimum and the stream was closed.
C27_Witness ==
  \E t \in Threads :
    /\ tpc[t] = "i_fail" /\ t_probe[t] = quality_test_attempts
    /\ ~stop_event /\ cap = None /\ open_handles = {}

\* C28: a source kind without HD gating (USB, HTTP, or hd_quality_enabled
\* false) whose device opens and returns only structurally valid frames meets
\* no minimum-resolution requirement between open and publish: no frame is
\* turned down, so no initialization fails and no backoff or cooldown is taken.
Ungated == camera_type # "RTSP" \/ ~hd_quality_enabled

C28_UngatedAcceptsEveryFrame ==
  (Ungated /\ dev_open = {TRUE} /\ "fail" \notin dev_read) =>
    /\ initialization_attempts = 0
    /\ \A t \in Threads : tpc[t] \notin {"i_fail", "cooldown"} /\ backoff[t] = 0

\* C29: on an HTTP source with http_url configured, whose endpoint always
\* returns a valid image, a started Capture Loop eventually publishes a frame
\* to the frame buffer and raises the new-data signal.
C29_HttpEventuallyPublishes ==
  (\E t \in Threads : Alive(t)) ~>
    (frame_buffer.raw_frame # NoFrame /\ frame_ready_event)

\* C30: a display tick that finds the new-data signal unset changes nothing;
\* one that finds it set copies raw_frame and processed_frame out of the slot,
\* clears the signal and stores the copies as current_frame and display_frame;
\* no step of a display tick changes the frame buffer or touches the device.
C30_DisplayTickReadsOnly ==
  [][disp' # disp =>
       /\ frame_buffer' = frame_buffer
       /\ dev' = dev
       /\ dpc = "idle" => frame_ready_event /\ frame_ready_event'
       /\ dpc = "raw" => d_raw' = frame_buffer.raw_frame
       /\ dpc = "proc" =>
            d_proc' = frame_buffer.processed_frame /\ ~frame_ready_event'
       /\ dpc = "store" =>
            IF d_proc = NoFrame
              THEN current_frame' = current_frame /\ display_frame' = display_frame
              ELSE current_frame' = d_raw /\ display_frame' = d_proc]_vars

\* ... a tick has copied the second publish out and cleared the signal, and the
\* next tick finds the signal unset.
C30_Witness ==
  /\ dpc = "idle" /\ ~frame_ready_event
  /\ current_frame = <<"raw", 2>> /\ display_frame = <<"processed", 2>>
  /\ frame_buffer.timestamp = 2

\* C31: a tick whose should-skip decision is true (the last sampled CPU load is
\* above frame_skip_threshold) performs no device operation (no open, test,
\* read or release), publishes nothing and only counts the skip: the frames
\* read so far and the failure counters are unchanged, and the thread is back
\* at the top of the loop.
C31_SkippedTickTouchesNothing ==
  [][\A t \in Threads :
       /\ Leaves(t, "skip") =>
            /\ tpc'[t] = "skipwait" <=> cpu_usage' > frame_skip_threshold
            /\ dev' = dev /\ dev_seq' = dev_seq /\ buf' = buf
            /\ frame_skip_counter' = frame_skip_counter
       /\ Leaves(t, "skipwait") =>
            /\ tpc'[t] = "top"
            /\ dev' = dev /\ dev_seq' = dev_seq /\ buf' = buf
            /\ frame_skip_counter' = Skipped(frame_skip_counter)
            /\ consecutive_failures' = consecutive_failures
            /\ initialization_attempts' = initialization_attempts]_vars

\* ... a tick was skipped while the session held its open device and had
\* published a frame.
C31_Witness ==
  /\ frame_skip_counter > 0
  /\ cap # None /\ cap \in open_handles
  /\ frame_buffer.timestamp > 0
  /\ \E t \in Threads : tpc[t] = "top"

\* C32: once the stop signal is set the watchdog exits at its next wait: it
\* issues no start and no restart while the signal is set.
WatchdogIssues == pc["wd"] = "wd_eval" /\ pc'["wd"] \in {"st_chk", "rs_chk"}

C32_NoWatchdogCallAfterStop == [][WatchdogIssues => ~stop_event]_vars

\* C33: no lost wakeup: whenever a publish has completed (slot written, lock
\* released, signal raised) and no take has read the slot since that write,
\* frame_ready_event is set.
\* The publish the last take read: the one in hand, else the one stored.
LastTaken == IF dpc \in {"proc", "store"} THEN FrameId(d_raw) ELSE FrameId(current_frame)

PublishCompleted ==
  /\ frame_buffer.timestamp > 0
  /\ buffer_lock # Capture
  /\ \A t \in Threads : tpc[t] # "p_set"

C33_NoLostWakeup ==
  (PublishCompleted /\ LastTaken # frame_buffer.timestamp) => frame_ready_event

\* ... the third publish completed while a take of the second was being
\* stored, and the signal raised by the third is still set after the store.
C33_Witness ==
  /\ dpc = "idle" /\ current_frame = <<"raw", 2>>
  /\ frame_buffer.timestamp = 3 /\ PublishCompleted
  /\ frame_ready_event

\* C34: restart_in_progress gives mutual exclusion and is never stuck: at most
\* one start/stop/restart request is between setting and clearing the flag,
\* the flag is set exactly while such a request is, it is cleared only by the
\* request that set it, and a flag that is set is eventually cleared, on the
\* exception path of a start too.
FlagSection ==
  {"st_clear", "st_flags", "st_thread", "st_rel",
   "sp_flags", "sp_set", "sp_join", "sp_close", "sp_rel",
   "rs_if", "rs_set", "rs_join", "rs_close", "rs_rel"}

Holders == {c \in Callers : pc[c] \in FlagSection}

FlagIsMutex ==
  /\ Cardinality(Holders) <= 1
  /\ restart_in_progress <=> Holders # {}

ClearedByHolder ==
  (restart_in_progress /\ ~restart_in_progress') =>
    \E c \in Holders : pc'[c] \notin FlagSection

StopCompleted ==
  /\ budget["user"] = 0 /\ pc["user"] = "idle" /\ refused["user"] = "no"
  /\ user_requests = {"sp_chk"}

C35_StopRespected ==
  [][StopCompleted =>
       /\ should_be_running' => should_be_running
       /\ \A t \in Threads : tpc[t] = "none" => tpc'[t] = "none"]_vars

(* ---- C36: the watchdog thread over a stop/start cycle -------------------- *)
\* 883-886, 891: the one watchdog thread of the session, started by __init__
\* (143), has left its loop.
WatchdogGone == pc["wd"] = "wd_exit"

\* C36: whenever should_be_running is true a watchdog thread is alive for the
\* session, in particular after a stop followed by a start.
C36_AlwaysSupervised == should_be_running => ~WatchdogGone

(* ---- C37: the feed button pressed on a running session ------------------- *)
\* No call of start_continuous_feed, stop_continuous_feed, restart_feed or
\* toggle_continuous_feed is in progress.
NoCallInProgress ==
  /\ pc["user"] = "idle"
  /\ pc["wd"] \in {"wd_top", "wd_chk", "wd_eval", "wd_wait", "wd_exit"}

\* C37: where the feed button is the only user request, should_be_running is
\* false only after a toggle that found the session running (950-952); once
\* that toggle and every request that was in progress have returned, the
\* session is stopped: is_running is false.
C37_ToggleStopsSession ==
  (NoCallInProgress /\ ~should_be_running) => ~is_running

(* ---- C38: the cadence of the display consumer ---------------------------- *)
\* C38: at most one display-update tick (_schedule_ui_update callback) is
\* pending for the session at any time, for every sequence of start and stop
\* calls.
C38_SingleTickPending == ui_pending <= 1

(* ---- C39: shutdown is final ---------------------------------------------- *)
\* shutdown_camera has returned (1320).
ShutDown == pc["user"] = "down"

\* C39: after shutdown_camera returns should_be_running is false, no Capture
\* Loop thread is started, and the device handle, once released, stays
\* released, whatever the watchdog had in progress when it was called.
C39_ShutdownIsFinal ==
  [][ShutDown =>
       /\ ~should_be_running /\ ~should_be_running'
       /\ \A t \in Threads : tpc[t] = "none" => tpc'[t] = "none"
       /\ open_handles = {} => open_handles' = {}]_vars

(* ---- C40: one staleness episode, one forced restart ---------------------- *)
\* 916-921: the watchdog calls restart_feed for a stale timestamp.
WatchdogForcesRestart == pc["wd"] = "wd_eval" /\ pc'["wd"] = "rs_chk"

\* C40: the last-success timestamp is refreshed only when a frame is published
\* (the end of an accepted iteration), and the watchdog does not force a
\* restart while less than a stale window has passed since the restart it
\* last forced began.
C40_OneRestartPerEpisode ==
  [][/\ frame_stale' # frame_stale /\ ~frame_stale' =>
          \E t \in Threads : Leaves(t, "post")
     /\ WatchdogForcesRestart => ~restart_forced]_vars

============================================================================
